---- MODULE Spec2Model ----
(***************************************************************************)
(* QuadClaude main process: the PtyManager (pane process supervisor, cwd   *)
(* tracking, git status probe) and the login-shell PATH resolver.          *)
(*                                                                         *)
(* Strings whose content the code inspects (terminal input, directories)   *)
(* are sequences of one-character strings.                                 *)
(***************************************************************************)
EXTENDS Integers, Sequences, FiniteSets, TLC

\* ------------------------------------------------------------------ bounds
MaxPane     == 1    \* pane ids are 0..MaxPane
MaxSessions == 3    \* child processes spawned in one run
MaxCwdLen   == 4    \* longest tracked directory, in characters
MaxProbedPane == 0  \* panes 0..MaxProbedPane are written to and probed
MaxUuids    == 3    \* identifiers drawn from crypto.randomUUID() in one run
MaxRecords  == 2    \* exchange records held in the write queues and day files
MaxNow      == 45   \* the clock stops after this many minutes
MaxBuffer   == 4    \* characters held in one pane's output buffer
MaxLines    == 5    \* lines of the newest day file that is searched
MaxOldLines == 3    \* lines of every older day file that is searched
MaxDays     == 2    \* day files of the project that is searched
MaxLimit    == 3    \* largest explicit limit passed to search
MaxText     == 3    \* characters of a text given to stripAnsi
MaxStored   == 5    \* most panes in a stored workspace

Panes    == 0..MaxPane
ProbedPanes == 0..MaxProbedPane
SessIds  == 1..MaxSessions

\* ------------------------------------------------------------ text helpers
EOL        == {"\n", "\r"}
Whitespace == {" ", "\t", "\n", "\r"}
Quotes     == {"'", "\""}

Home == <<"/", "h">>

\* str.replace(/[\r\n]+$/, '')
RECURSIVE StripTrailingEol(_)
StripTrailingEol(s) ==
    IF s # <<>> /\ s[Len(s)] \in EOL
    THEN StripTrailingEol(SubSeq(s, 1, Len(s) - 1))
    ELSE s

\* str.replace(/[x]/g, '') for a set of characters
RECURSIVE RemoveChars(_, _)
RemoveChars(s, cs) ==
    IF s = <<>> THEN <<>>
    ELSE IF s[1] \in cs THEN RemoveChars(Tail(s), cs)
    ELSE <<s[1]>> \o RemoveChars(Tail(s), cs)

RECURSIVE TrimLeft(_)
TrimLeft(s) == IF s # <<>> /\ s[1] \in Whitespace THEN TrimLeft(Tail(s)) ELSE s

RECURSIVE TrimRight(_)
TrimRight(s) ==
    IF s # <<>> /\ s[Len(s)] \in Whitespace
    THEN TrimRight(SubSeq(s, 1, Len(s) - 1))
    ELSE s

\* String.prototype.trim
Trim(s) == TrimRight(TrimLeft(s))

StartsWith(s, c) == s # <<>> /\ s[1] = c

\* String.prototype.slice(n)
Slice(s, n) == SubSeq(s, n + 1, Len(s))

\* the longest prefix of s free of line terminators: what (.+) can capture
RECURSIVE UpToEol(_)
UpToEol(s) ==
    IF s = <<>> \/ s[1] \in EOL THEN <<>> ELSE <<s[1]>> \o UpToEol(Tail(s))

\* cleanData.match(/^cd\s+(.+)/): the capture group, or <<>> when no match.
\* \s+ is greedy and backs off until (.+) finds a character that is not a
\* line terminator.
CdCapture(s) ==
    IF Len(s) < 4 \/ s[1] # "c" \/ s[2] # "d" \/ s[3] \notin Whitespace
    THEN <<>>
    ELSE LET starts == {i \in 4..Len(s) :
                          /\ \A j \in 3..(i - 1) : s[j] \in Whitespace
                          /\ s[i] \notin EOL}
         IN  IF starts = {} THEN <<>>
             ELSE LET i == CHOOSE k \in starts : \A m \in starts : m <= k
                  IN  UpToEol(SubSeq(s, i, Len(s)))

\* ------------------------------------------------------------- path.join
RECURSIVE Split(_)
\* s.split('/')
Split(s) ==
    IF \A i \in 1..Len(s) : s[i] # "/" THEN <<s>>
    ELSE LET i == CHOOSE k \in 1..Len(s) :
                     s[k] = "/" /\ \A m \in 1..(k - 1) : s[m] # "/"
         IN  <<SubSeq(s, 1, i - 1)>> \o Split(SubSeq(s, i + 1, Len(s)))

RECURSIVE NormalizeSegs(_, _, _)
\* node's normalizeString: drop "" and ".", resolve ".."
NormalizeSegs(segs, acc, allowAboveRoot) ==
    IF segs = <<>> THEN acc
    ELSE LET g == segs[1] IN
         IF g = <<>> \/ g = <<".">>
         THEN NormalizeSegs(Tail(segs), acc, allowAboveRoot)
         ELSE IF g = <<".", ".">>
         THEN IF acc # <<>> /\ acc[Len(acc)] # <<".", ".">>
              THEN NormalizeSegs(Tail(segs), SubSeq(acc, 1, Len(acc) - 1), allowAboveRoot)
              ELSE IF allowAboveRoot
              THEN NormalizeSegs(Tail(segs), Append(acc, g), allowAboveRoot)
              ELSE NormalizeSegs(Tail(segs), acc, allowAboveRoot)
         ELSE NormalizeSegs(Tail(segs), Append(acc, g), allowAboveRoot)

RECURSIVE JoinSegs(_)
JoinSegs(segs) ==
    IF segs = <<>> THEN <<>>
    ELSE IF Len(segs) = 1 THEN segs[1]
    ELSE segs[1] \o <<"/">> \o JoinSegs(Tail(segs))

\* path.posix.normalize
Normalize(p) ==
    IF p = <<>> THEN <<".">>
    ELSE LET isAbsolute == p[1] = "/"
             trailing   == p[Len(p)] = "/"
             body       == JoinSegs(NormalizeSegs(Split(p), <<>>, ~isAbsolute))
             body2      == IF body = <<>> /\ ~isAbsolute THEN <<".">> ELSE body
             body3      == IF body2 # <<>> /\ trailing THEN body2 \o <<"/">> ELSE body2
         IN  IF isAbsolute THEN <<"/">> \o body3 ELSE body3

\* path.join(a, b)
PathJoin(a, b) ==
    LET joined == IF a = <<>> THEN b
                  ELSE IF b = <<>> THEN a
                  ELSE a \o <<"/">> \o b
    IN  Normalize(joined)


\* ------------------------------------------------------------- the state
VARIABLES
    platform,      \* os.platform(), fixed for the process
    ptys,          \* PtyManager.ptys: the Map, as its entries in insertion order
    proc,          \* every child spawned so far: "none", "running", "exiting", "exited"
    procPane,      \* the paneId captured by a child's onData / onExit closures
    cachedPath,    \* module-level cachedPath of the PATH resolver
    shellRan,      \* the login-shell PATH command has been executed
    lastOp,        \* the latest call or event, its arguments and its outcome
    fs,            \* the files of the history store and the project markers
    writeBuffers,  \* HistoryManager.writeBuffers, entries in insertion order
    uuids,         \* how many identifiers crypto.randomUUID() has produced
    now,           \* the wall clock, in minutes
    flushTimer,    \* HistoryManager.flushTimer is set
    paneProjectIds,\* index.ts paneProjectIds: paneId -> cached project id
    outputBuffers, \* index.ts outputBuffers, entries in insertion order
    historyFlushTimer, \* index.ts historyFlushTimer is set
    workspace,     \* the panes of the stored workspace: id and workingDirectory
    initializedPtys, \* TerminalPane.tsx initializedPtys: panes whose session was requested
    exitHandlers,  \* PTY_EXIT events sent to the renderer and the handlers running for them
    storeCwd       \* the renderer store: each pane's workingDirectory

ptyVars  == <<platform, ptys, proc, procPane, cachedPath, shellRan>>
histVars == <<fs, writeBuffers, uuids, now, flushTimer>>
captVars == <<paneProjectIds, outputBuffers, historyFlushTimer, workspace>>
rendVars == <<initializedPtys, exitHandlers, storeCwd>>
vars == <<platform, ptys, proc, procPane, cachedPath, shellRan, lastOp,
          fs, writeBuffers, uuids, now, flushTimer, paneProjectIds, outputBuffers,
          historyFlushTimer, workspace, initializedPtys, exitHandlers, storeCwd>>

Platforms == {"darwin", "linux", "win32"}

\* ---- the Map<number, PtyInstance>
Has(m, p)    == \E i \in 1..Len(m) : m[i].paneId = p
Get(m, p)    == m[CHOOSE i \in 1..Len(m) : m[i].paneId = p]
Delete(m, p) == SelectSeq(m, LAMBDA e : e.paneId # p)
Set(m, p, inst) ==
    IF Has(m, p)
    THEN [i \in 1..Len(m) |-> IF m[i].paneId = p THEN inst ELSE m[i]]
    ELSE Append(m, inst)
SetCwd(m, p, c) == Set(m, p, [Get(m, p) EXCEPT !.cwd = c])

\* pty.kill(): the child is signalled; its exit event arrives later
Signalled(pr, s) == IF pr[s] = "running" THEN [pr EXCEPT ![s] = "exiting"] ELSE pr

\* ---- values the environment supplies
NullPath     == <<"null">>                \* cachedPath = null
FallbackPath == <<"/", "b">>              \* the hardcoded list of directories
LoginPath    == <<"/", "u">>              \* what the login shell printed
\* outcome of execSync(`${shell} -l -c 'echo $PATH'`).trim(): it throws, or it
\* returns the (possibly empty) trimmed output
NotRun == [ok |-> FALSE, out |-> <<>>]    \* also: the command was not run
ShellOutcomes == {[ok |-> FALSE, out |-> <<>>],
                  [ok |-> TRUE,  out |-> LoginPath],
                  [ok |-> TRUE,  out |-> <<>>]}

Dir_p     == <<"/", "p">>
NoDir     == <<>>                         \* createPty called without cwd
CreateDirs == {NoDir, Dir_p}

\* getLoginShellPath()
getLoginShellPath(o) == IF o.ok THEN o.out ELSE FallbackPath

\* if (!cachedPath): null and the empty string are both falsy
NeedsDiscovery(c) == c = NullPath \/ c = <<>>

\* createDefaultWorkspace().panes: four panes in the home directory
StoredPanes == 4
createDefaultWorkspace == [i \in 1..StoredPanes |-> [id |-> i - 1, workingDirectory |-> Home]]
\* createDefaultPaneConfig(id)
createDefaultPaneConfig(id) == [id |-> id, workingDirectory |-> Home]

\* the disk before the application has run: no marker, no history directory
EmptyDisk == [markers |-> <<>>, dirs |-> {}, days |-> <<>>, index |-> <<>>]

TypeOK ==
    /\ platform \in Platforms
    /\ \A i \in 1..Len(ptys) : ptys[i].paneId \in Panes /\ ptys[i].pty \in SessIds
    /\ proc \in [SessIds -> {"none", "running", "exiting", "exited"}]
    /\ shellRan \in BOOLEAN

\* the renderer before any pane is mounted; its store is loaded from the workspace
RendererInit ==
    /\ initializedPtys = {}
    /\ exitHandlers = <<>>
    /\ storeCwd = [p \in Panes |-> Home]

Init ==
    /\ platform \in Platforms
    /\ ptys = <<>>
    /\ proc = [s \in SessIds |-> "none"]
    /\ procPane = [s \in SessIds |-> 0]
    /\ cachedPath = NullPath
    /\ shellRan = FALSE
    /\ lastOp = [op |-> "init"]
    /\ fs = EmptyDisk
    /\ writeBuffers = <<>>
    /\ uuids = 0
    /\ now = 0
    /\ flushTimer = TRUE
    /\ paneProjectIds = <<>>
    /\ outputBuffers = <<>>
    /\ historyFlushTimer = TRUE
    /\ workspace = createDefaultWorkspace
    /\ RendererInit

Spawned == {s \in SessIds : proc[s] # "none"}
NextSess == Cardinality(Spawned) + 1

\* ------------------------------------------------------------ killPty
\* killPty(paneId) when instance.pty.kill() returns normally
KillPtyOk(m, pr, p) ==
    IF Has(m, p)
    THEN [ptys |-> Delete(m, p), proc |-> Signalled(pr, Get(m, p).pty)]
    ELSE [ptys |-> m, proc |-> pr]

killPty(p) ==
    \E killThrows \in BOOLEAN :
        /\ killThrows => Has(ptys, p)
        /\ IF killThrows
           THEN /\ UNCHANGED <<ptys, proc>>
                /\ lastOp' = [op |-> "killPty", pane |-> p, threw |-> TRUE, had |-> TRUE]
           ELSE /\ ptys' = KillPtyOk(ptys, proc, p).ptys
                /\ proc' = KillPtyOk(ptys, proc, p).proc
                /\ lastOp' = [op |-> "killPty", pane |-> p, threw |-> FALSE,
                              had |-> Has(ptys, p)]
        /\ UNCHANGED <<platform, procPane, cachedPath, shellRan>>

\* ------------------------------------------------------------ createPty
\* getShellEnv(): runs the discovery when nothing truthy is cached
ShellEnv(c, o) == IF NeedsDiscovery(c) THEN getLoginShellPath(o) ELSE c

\* the instance registered by this.ptys.set(paneId, {pty, cwd: workingDir})
NewInstance(p, s, d) == [paneId |-> p, pty |-> s, cwd |-> IF d = NoDir THEN Home ELSE d]

\* which outcomes of the calls made by createPty are possible in this state
CreateInputs(p, killThrows, spawnThrows, o) ==
    /\ killThrows => Has(ptys, p)
    /\ (~killThrows /\ ~NeedsDiscovery(cachedPath)) => o = NotRun
    /\ killThrows => (o = NotRun /\ ~spawnThrows)
    /\ (~killThrows /\ ~spawnThrows) => NextSess <= MaxSessions

\* faulty variant of CreateOutcome: a failed spawn leaves the pane's previous
\* session registered and running
CreateOutcome_KeepsOnFailure(p, d, killThrows, spawnThrows, o) ==
    LET k   == KillPtyOk(ptys, proc, p)
        ran == NeedsDiscovery(cachedPath)
        op  == [op |-> "createPty", pane |-> p, dir |-> d]
    IN  IF killThrows
        THEN [ptys |-> ptys, proc |-> proc, procPane |-> procPane,
              cachedPath |-> cachedPath, shellRan |-> shellRan,
              lastOp |-> op @@ [threw |-> TRUE, ret |-> FALSE, sess |-> 0,
                                ranShell |-> FALSE]]
        ELSE IF spawnThrows
        THEN [ptys |-> ptys, proc |-> proc, procPane |-> procPane,
              cachedPath |-> ShellEnv(cachedPath, o), shellRan |-> shellRan \/ ran,
              lastOp |-> op @@ [threw |-> FALSE, ret |-> FALSE, sess |-> 0,
                                ranShell |-> ran]]
        ELSE [ptys |-> Set(k.ptys, p, NewInstance(p, NextSess, d)),
              proc |-> [k.proc EXCEPT ![NextSess] = "running"],
              procPane |-> [procPane EXCEPT ![NextSess] = p],
              cachedPath |-> ShellEnv(cachedPath, o), shellRan |-> shellRan \/ ran,
              lastOp |-> op @@ [threw |-> FALSE, ret |-> TRUE, sess |-> NextSess,
                                ranShell |-> ran]]

\* the state createPty(paneId, cwd) leaves behind, and what it reports
CreateOutcome(p, d, killThrows, spawnThrows, o) ==
    LET k   == KillPtyOk(ptys, proc, p)
        ran == NeedsDiscovery(cachedPath)
        op  == [op |-> "createPty", pane |-> p, dir |-> d]
    IN  IF killThrows
        THEN \* killPty is called outside the try block
             [ptys |-> ptys, proc |-> proc, procPane |-> procPane,
              cachedPath |-> cachedPath, shellRan |-> shellRan,
              lastOp |-> op @@ [threw |-> TRUE, ret |-> FALSE, sess |-> 0,
                                ranShell |-> FALSE]]
        ELSE IF spawnThrows
        THEN [ptys |-> k.ptys, proc |-> k.proc, procPane |-> procPane,
              cachedPath |-> ShellEnv(cachedPath, o), shellRan |-> shellRan \/ ran,
              lastOp |-> op @@ [threw |-> FALSE, ret |-> FALSE, sess |-> 0,
                                ranShell |-> ran]]
        ELSE [ptys |-> Set(k.ptys, p, NewInstance(p, NextSess, d)),
              proc |-> [k.proc EXCEPT ![NextSess] = "running"],
              procPane |-> [procPane EXCEPT ![NextSess] = p],
              cachedPath |-> ShellEnv(cachedPath, o), shellRan |-> shellRan \/ ran,
              lastOp |-> op @@ [threw |-> FALSE, ret |-> TRUE, sess |-> NextSess,
                                ranShell |-> ran]]

createPty(p, d) ==
    \E killThrows \in BOOLEAN, spawnThrows \in BOOLEAN, o \in ShellOutcomes :
        /\ CreateInputs(p, killThrows, spawnThrows, o)
        /\ LET r == CreateOutcome(p, d, killThrows, spawnThrows, o) IN
            /\ ptys' = r.ptys
            /\ proc' = r.proc
            /\ procPane' = r.procPane
            /\ cachedPath' = r.cachedPath
            /\ shellRan' = r.shellRan
            /\ lastOp' = r.lastOp
        /\ UNCHANGED platform

\* ------------------------------------------------------------ killAll
\* for (const [paneId] of this.ptys) this.killPty(paneId): entries are visited
\* in insertion order; the first kill() that throws ends the loop
RECURSIVE KillFirst(_, _, _)
KillFirst(m, pr, n) ==
    IF n = 0 \/ m = <<>> THEN [ptys |-> m, proc |-> pr]
    ELSE LET k == KillPtyOk(m, pr, m[1].paneId) IN KillFirst(k.ptys, k.proc, n - 1)

killAll ==
    \E n \in 0..Len(ptys) :
        /\ ptys' = KillFirst(ptys, proc, n).ptys
        /\ proc' = KillFirst(ptys, proc, n).proc
        /\ lastOp' = [op |-> "killAll", threw |-> n < Len(ptys)]
        /\ UNCHANGED <<platform, procPane, cachedPath, shellRan>>

\* ------------------------------------------------------- child processes
\* a child terminates on its own (exit typed, crash, external signal)
ChildTerminates(s) ==
    /\ proc[s] = "running"
    /\ proc' = [proc EXCEPT ![s] = "exiting"]
    /\ lastOp' = [op |-> "terminated", sess |-> s]
    /\ UNCHANGED <<platform, ptys, procPane, cachedPath, shellRan>>

\* faulty variant of the exit handler: it reports the exit only of the session
\* that the registry still holds for the pane
onExitHandler_OnlyRegistered(s) ==
    /\ proc[s] = "exiting"
    /\ Has(ptys, procPane[s]) /\ Get(ptys, procPane[s]).pty = s
    /\ proc' = [proc EXCEPT ![s] = "exited"]
    /\ ptys' = Delete(ptys, procPane[s])
    /\ lastOp' = [op |-> "onExit", pane |-> procPane[s], sess |-> s]
    /\ UNCHANGED <<platform, procPane, cachedPath, shellRan>>

\* ptyProcess.onExit(({exitCode}) => { this.ptys.delete(paneId); this.onExit(...) })
onExitHandler(s) ==
    /\ proc[s] = "exiting"
    /\ proc' = [proc EXCEPT ![s] = "exited"]
    /\ ptys' = Delete(ptys, procPane[s])
    /\ lastOp' = [op |-> "onExit", pane |-> procPane[s], sess |-> s]
    /\ UNCHANGED <<platform, procPane, cachedPath, shellRan>>


\* ------------------------------------------------------------ write
\* faulty variant of TrackCd: a relative path is resolved against the home
\* directory instead of the tracked one
TrackCd_FromHome(cwd, data) ==
    LET cleanData == StripTrailingEol(data)
        cdMatch   == CdCapture(cleanData)
        newDir    == RemoveChars(RemoveChars(Trim(cdMatch), Quotes), EOL)
    IN  IF cdMatch = <<>> THEN cwd
        ELSE IF StartsWith(newDir, "/") THEN newDir
        ELSE IF newDir = <<"~">> THEN Home
        ELSE IF StartsWith(newDir, "~") THEN PathJoin(Home, Slice(newDir, 2))
        ELSE PathJoin(Home, newDir)

\* the cd heuristic of write(): the tracked directory after `data` was written
TrackCd(cwd, data) ==
    LET cleanData == StripTrailingEol(data)
        cdMatch   == CdCapture(cleanData)
        newDir    == RemoveChars(RemoveChars(Trim(cdMatch), Quotes), EOL)
    IN  IF cdMatch = <<>> THEN cwd
        ELSE IF StartsWith(newDir, "/") THEN newDir
        ELSE IF newDir = <<"~">> THEN Home
        ELSE IF StartsWith(newDir, "~") THEN PathJoin(Home, Slice(newDir, 2))
        ELSE PathJoin(cwd, newDir)

\* "cd <arg>" followed by a line terminator
CdLine(arg, term) == <<"c", "d", " ">> \o arg \o term

WriteData ==
    { CdLine(<<"s">>, <<"\n">>),                    \* cd s
      CdLine(<<"/", "a">>, <<"\r">>),               \* cd /a
      CdLine(<<"~">>, <<"\n">>),                    \* cd ~
      CdLine(<<"~", "/", "x">>, <<"\r", "\n">>),    \* cd ~/x
      CdLine(<<".", ".">>, <<"\n">>),               \* cd ..
      <<"c", "d", " ", " ", "'", "s", "'", " ">>,   \* cd  's' , not terminated
      CdLine(<<"~", "u", "s">>, <<"\n">>),          \* cd ~us
      <<"c", "d", "\n">>,                           \* cd
      <<"l", "s", "\n">> }                          \* ls

write(p, data) ==
    /\ IF Has(ptys, p)
       THEN /\ \E c \in {TrackCd(Get(ptys, p).cwd, data)} :
                  Len(c) <= MaxCwdLen /\ ptys' = SetCwd(ptys, p, c)
            /\ lastOp' = [op |-> "write", pane |-> p, data |-> data, live |-> TRUE]
       ELSE /\ UNCHANGED ptys
            /\ lastOp' = [op |-> "write", pane |-> p, data |-> data, live |-> FALSE]
    /\ UNCHANGED <<platform, proc, procPane, cachedPath, shellRan>>

\* ------------------------------------------------------------ getCwd
\* outcome of the execSync of the probe: it throws (error, timeout), or it
\* returns the trimmed output
\* lsof | grep | cut can print anything; readlink prints a path or nothing
ProbeOutputs(pf) == IF pf = "darwin" THEN {<<>>, <<"/", "t">>, <<"x">>}
                    ELSE {<<>>, <<"/", "t">>}
Probes(pf) == IF pf \in {"darwin", "linux"}
              THEN {[ok |-> FALSE, out |-> <<>>]} \cup
                   {[ok |-> TRUE, out |-> r] : r \in ProbeOutputs(pf)}
              ELSE {NotRun}

\* faulty variant of ProbedCwd: a probe without result resets the directory
ProbedCwd_ResetsOnFailure(pf, cwd, o) ==
    IF pf \in {"darwin", "linux"}
    THEN IF o.ok /\ o.out # <<>> /\ StartsWith(o.out, "/") THEN o.out ELSE Home
    ELSE cwd

\* faulty variant of ProbedCwd: the probed value is not stored
ProbedCwd_NotStored(pf, cwd, o) == cwd

\* instance.cwd after the try block of getCwd
ProbedCwd(pf, cwd, o) ==
    IF pf = "darwin"
    THEN IF o.ok /\ o.out # <<>> /\ StartsWith(o.out, "/") THEN o.out ELSE cwd
    ELSE IF pf = "linux"
    THEN IF o.ok /\ o.out # <<>> THEN o.out ELSE cwd
    ELSE cwd

Null == [isNull |-> TRUE]
Str(v) == [isNull |-> FALSE, val |-> v]

getCwd(p) ==
    /\ IF Has(ptys, p)
       THEN \E o \in Probes(platform) :
              /\ ptys' = SetCwd(ptys, p, ProbedCwd(platform, Get(ptys, p).cwd, o))
              /\ lastOp' = [op |-> "getCwd", pane |-> p, probe |-> o,
                            ret |-> Str(ProbedCwd(platform, Get(ptys, p).cwd, o))]
       ELSE /\ UNCHANGED ptys
            /\ lastOp' = [op |-> "getCwd", pane |-> p, probe |-> NotRun, ret |-> Null]
    /\ UNCHANGED <<platform, proc, procPane, cachedPath, shellRan>>


\* ---- getCwd in two steps: execSync is synchronous, the main thread waits in
\* it until the command has ended or its timeout has expired
Blocked == lastOp.op = "execSync"

\* getCwd(paneId) up to the call of execSync
getCwdBegins(p) ==
    /\ Has(ptys, p)
    /\ platform \in {"darwin", "linux"}
    /\ lastOp' = [op |-> "execSync", caller |-> "getCwd", pane |-> p]
    /\ UNCHANGED <<platform, ptys, proc, procPane, cachedPath, shellRan>>

\* execSync returns or throws; the rest of getCwd
getCwdReturns ==
    /\ Blocked /\ lastOp.caller = "getCwd"
    /\ \E o \in Probes(platform) :
          /\ ptys' = SetCwd(ptys, lastOp.pane,
                            ProbedCwd(platform, Get(ptys, lastOp.pane).cwd, o))
          /\ lastOp' = [op |-> "getCwd", pane |-> lastOp.pane, probe |-> o,
                        ret |-> Str(ProbedCwd(platform, Get(ptys, lastOp.pane).cwd, o))]
    /\ UNCHANGED <<platform, proc, procPane, cachedPath, shellRan>>

\* ------------------------------------------------------------ getGitStatus
\* outcomes of the four git commands; ok = FALSE: execSync threw
\* rev-parse --is-inside-work-tree: only whether it throws is looked at, its
\* output ("true", or "false" inside a .git directory) is not read
CheckOutcomes  == {"throw", "ok"}
BranchOutcomes == {[ok |-> FALSE, out |-> "" ], [ok |-> TRUE, out |-> "main"]}
Num(n) == [num |-> TRUE, n |-> n]
NaN    == [num |-> FALSE, n |-> 0]
\* tracking.split(/\s+/) of the trimmed rev-list output
TrackingOutcomes == {[ok |-> FALSE, toks |-> <<>>],
                     [ok |-> TRUE,  toks |-> <<Num(2), Num(1)>>],
                     [ok |-> TRUE,  toks |-> <<NaN>>]}
\* status.split('\n') of the porcelain output
StatusOutcomes == {[ok |-> FALSE, lines |-> <<>>],
                   [ok |-> TRUE,  lines |-> << <<" ", "M", " ", "a">>, <<"?", "?", " ", "b">>, <<>> >>]}

\* parseInt(str, 10) || 0, str possibly undefined
ParseIntOr0(toks, i) == IF i <= Len(toks) /\ toks[i].num THEN toks[i].n ELSE 0

\* status.split('\n').filter(line => line.trim().length > 0).length
DirtyCount(lines) == Len(SelectSeq(lines, LAMBDA l : Len(Trim(l)) > 0))

\* faulty variant of GitStatusOf: a failed check is reported as null
GitStatusOf_NullOnFailure(check, b, t, st) ==
    IF check = "throw" THEN Null
    ELSE [isGitRepo |-> TRUE,
          branch |-> IF b.ok THEN b.out ELSE "HEAD",
          ahead  |-> IF t.ok THEN ParseIntOr0(t.toks, 1) ELSE 0,
          behind |-> IF t.ok THEN ParseIntOr0(t.toks, 2) ELSE 0,
          dirty  |-> IF st.ok THEN DirtyCount(st.lines) ELSE 0]

\* faulty variant of GitStatusOf: the branch, upstream and status lookups
\* share one try block, so any failure gives {isGitRepo: false}
GitStatusOf_AllOrNothing(check, b, t, st) ==
    IF check = "throw" \/ ~b.ok \/ ~t.ok \/ ~st.ok THEN [isGitRepo |-> FALSE]
    ELSE [isGitRepo |-> TRUE,
          branch |-> b.out,
          ahead  |-> ParseIntOr0(t.toks, 1),
          behind |-> ParseIntOr0(t.toks, 2),
          dirty  |-> DirtyCount(st.lines)]

\* the value getGitStatus returns once the pane has a session
GitStatusOf(check, b, t, st) ==
    IF check = "throw" THEN [isGitRepo |-> FALSE]
    ELSE [isGitRepo |-> TRUE,
          branch |-> IF b.ok THEN b.out ELSE "HEAD",
          ahead  |-> IF t.ok THEN ParseIntOr0(t.toks, 1) ELSE 0,
          behind |-> IF t.ok THEN ParseIntOr0(t.toks, 2) ELSE 0,
          dirty  |-> IF st.ok THEN DirtyCount(st.lines) ELSE 0]

getGitStatus(p) ==
    /\ IF Has(ptys, p)
       THEN \E o \in Probes(platform), check \in CheckOutcomes, b \in BranchOutcomes,
               t \in TrackingOutcomes, st \in StatusOutcomes :
              \* the commands after a failed check are not run
              /\ check = "throw" => (~b.ok /\ ~t.ok /\ ~st.ok)
              /\ ptys' = SetCwd(ptys, p, ProbedCwd(platform, Get(ptys, p).cwd, o))
              /\ lastOp' = [op |-> "getGitStatus", pane |-> p, check |-> check,
                            branch |-> b, tracking |-> t, status |-> st,
                            ret |-> GitStatusOf(check, b, t, st)]
       ELSE /\ UNCHANGED ptys
            /\ lastOp' = [op |-> "getGitStatus", pane |-> p, check |-> "none",
                          ret |-> Null]
    /\ UNCHANGED <<platform, proc, procPane, cachedPath, shellRan>>

\* ======================================================================
\* HistoryManager
\* ======================================================================
\* crypto.randomUUID(): the n-th identifier produced, a 36 character string
\* that is handled as one symbol here
UuidSyms == <<"u1", "u2", "u3", "u4", "u5", "u6">>
Uuid(n)  == <<UuidSyms[n]>>
TempPrefix == "temp-"

\* isValidUuid(str): /^[0-9a-f]{8}-...-[0-9a-f]{12}$/i
isValidUuid(str) == Len(str) = 1 /\ \E n \in 1..Len(UuidSyms) : str[1] = UuidSyms[n]

\* `temp-${crypto.randomUUID()}`
EphemeralId_Unprefixed(n) == Uuid(n)
EphemeralId(n) == <<TempPrefix>> \o Uuid(n)

\* !projectId || projectId.startsWith('temp-')
IsEphemeral(id) == id = <<>> \/ StartsWith(id, TempPrefix)

\* a partial function as a file system directory: lookup, store, remove
Exists(f, k)   == k \in DOMAIN f
Put(f, k, v)   == [x \in DOMAIN f \cup {k} |-> IF x = k THEN v ELSE f[x]]
Remove(f, k)   == [x \in DOMAIN f \ {k} |-> f[x]]

\* the project roots that are resolved
ProjectPaths == {Dir_p, Home}

\* initializeIndex(projectId, projectPath): a failing write is logged only
EmptyIndex(id, path) == [corrupt |-> FALSE, projectPath |-> path, projectId |-> id,
                         sessions |-> <<>>]

\* where a call of getOrCreateProjectId can hit an I/O failure
ResolveFailures == {"none", "read", "mkdir", "write", "histdir", "index"}

\* the marker holds a usable id: projectId && this.isValidUuid(projectId)
MarkerId_NeverValid(d, path) == <<>>
MarkerId(d, path) ==
    IF Exists(d.markers, path) /\ isValidUuid(Trim(d.markers[path]))
    THEN Trim(d.markers[path]) ELSE <<>>

\* which failure points the call reaches on disk d
ResolveReaches(d, path, fail) ==
    /\ fail = "read" => Exists(d.markers, path)
    /\ fail \in {"mkdir", "write", "histdir", "index"} => MarkerId(d, path) = <<>>
ResolveInputs(path, fail) == ResolveReaches(fs, path, fail)

\* getOrCreateProjectId(projectPath): the id returned, the disk and the number
\* of identifiers drawn afterwards
GetOrCreateOutcome(d, n, path, fail) ==
    IF fail = "read"
    THEN [ret |-> EphemeralId(n + 1), fs |-> d, uuids |-> n + 1]
    ELSE IF MarkerId(d, path) # <<>>
    THEN [ret |-> MarkerId(d, path), fs |-> d, uuids |-> n]
    ELSE IF fail = "mkdir"
    THEN [ret |-> EphemeralId(n + 1), fs |-> d, uuids |-> n + 1]
    ELSE IF fail = "write"
    THEN [ret |-> EphemeralId(n + 2), fs |-> d, uuids |-> n + 2]
    ELSE LET id == Uuid(n + 1)
             d1 == [d EXCEPT !.markers = Put(@, path, id)]
         IN  IF fail = "histdir"
             THEN [ret |-> EphemeralId(n + 2), fs |-> d1, uuids |-> n + 2]
             ELSE LET d2 == [d1 EXCEPT !.dirs = @ \cup {id}] IN
                  [ret |-> id, uuids |-> n + 1,
                   fs |-> IF fail = "index" THEN d2
                          ELSE [d2 EXCEPT !.index = Put(@, id, EmptyIndex(id, path))]]

getOrCreateProjectId(path) ==
    \E fail \in ResolveFailures :
        /\ ResolveInputs(path, fail)
        /\ LET r == GetOrCreateOutcome(fs, uuids, path, fail) IN
            /\ r.uuids <= MaxUuids
            /\ fs' = r.fs
            /\ uuids' = r.uuids
            /\ lastOp' = [op |-> "getOrCreateProjectId", path |-> path,
                          fail |-> fail, ret |-> r.ret]
        /\ UNCHANGED <<writeBuffers, now, flushTimer>>

\* the marker file is edited or removed from outside the application
MarkerEdits == {<<>>, <<"x">>}
MarkerChanged(path) ==
    /\ Exists(fs.markers, path)
    /\ \/ fs' = [fs EXCEPT !.markers = Remove(@, path)]
       \/ \E c \in MarkerEdits : fs' = [fs EXCEPT !.markers = Put(@, path, c)]
       \/ /\ Len(fs.markers[path]) = 1
          /\ fs' = [fs EXCEPT !.markers = Put(@, path, fs.markers[path] \o <<"\n">>)]
    /\ lastOp' = [op |-> "markerChanged", path |-> path]
    /\ UNCHANGED <<writeBuffers, uuids, now, flushTimer>>


\* ---- the exchange records
MinutesPerDay == 24 * 60
\* getTodayDateString(): the calendar day of the clock
DateOf(t) == t \div MinutesPerDay
\* toLocaleTimeString(...): hour and minute of the day
TimeSym(t) == ToString(t % MinutesPerDay)

\* content.split('\n')
RECURSIVE SplitLines(_)
SplitLines(s) ==
    IF \A i \in 1..Len(s) : s[i] # "\n" THEN <<s>>
    ELSE LET i == CHOOSE k \in 1..Len(s) :
                     s[k] = "\n" /\ \A m \in 1..(k - 1) : s[m] # "\n"
         IN  <<SubSeq(s, 1, i - 1)>> \o SplitLines(SubSeq(s, i + 1, Len(s)))

\* buffer.join('')
RECURSIVE Concat(_)
Concat(ss) == IF ss = <<>> THEN <<>> ELSE Head(ss) \o Concat(Tail(ss))

RecordMark == "### ["
Fence == "<fence>"                     \* the line of three backquotes
\* formatExchange(timestamp, paneId, type, content)
formatExchange(t, pane, type, content) ==
    <<RecordMark, TimeSym(t), "] Terminal ", ToString(pane + 1), " - ", type, "\n",
      IF type = "input" THEN "**Input:**" ELSE "**Output:**", "\n", Fence, "\n">>
        \o Trim(content) \o <<"\n", Fence, "\n", "\n">>

\* getSessionHeader()
SessionMark == "## Session: "
getSessionHeader(t) ==
    <<"\n", "---", "\n", SessionMark, ToString(DateOf(t)), " at ", TimeSym(t), "\n", "\n">>

\* ---- the write queues: Map<string, string[]> in insertion order
HasQueue(w, id) == \E i \in 1..Len(w) : w[i].id = id
Push(w, id, entry) ==
    IF HasQueue(w, id)
    THEN [i \in 1..Len(w) |-> IF w[i].id = id
                              THEN [w[i] EXCEPT !.buffer = Append(@, entry)] ELSE w[i]]
    ELSE Append(w, [id |-> id, buffer |-> <<entry>>])

\* how many exchange records a text holds: content.match(/^### \[/gm)
CountRecords(content) ==
    Cardinality({i \in 1..Len(content) :
                    content[i] = RecordMark /\ (i = 1 \/ content[i - 1] = "\n")})

RECURSIVE SumOver(_, _)
SumOver(f, ks) ==
    IF ks = {} THEN 0
    ELSE LET k == CHOOSE x \in ks : TRUE IN f[k] + SumOver(f, ks \ {k})

\* the records held by the queues and by the day files
Queued(w) == SumOver([i \in 1..Len(w) |-> Len(w[i].buffer)], 1..Len(w))
Stored(d) == SumOver([k \in DOMAIN d.days |-> CountRecords(d.days[k].content)],
                     DOMAIN d.days)

\* faulty variant: only the empty id is discarded
AppendOutcome_QueuesTemp(w, t, id, pane, type, content) ==
    IF id = <<>> THEN w
    ELSE Push(w, id, formatExchange(t, pane, type, content))

\* appendExchange(projectId, paneId, type, content)
AppendOutcome(w, t, id, pane, type, content) ==
    IF IsEphemeral(id) THEN w
    ELSE Push(w, id, formatExchange(t, pane, type, content))

ExchangeTexts == {<<" ", "b", "\n">>}
ExchangeTypes == {"input", "output"}
\* the ids a caller can pass: none, an ephemeral one, persistent ones
AppendIds == {<<>>, EphemeralId(1), Uuid(1), Uuid(2)}

appendExchange(id, pane, type, content) ==
    /\ Queued(writeBuffers) + Stored(fs) < MaxRecords
    /\ writeBuffers' = AppendOutcome(writeBuffers, now, id, pane, type, content)
    /\ lastOp' = [op |-> "appendExchange", id |-> id, pane |-> pane, type |-> type]
    /\ UNCHANGED <<fs, uuids, now, flushTimer>>

\* ---- flush
ThirtyMinutes == 30
\* the step of the clock, in minutes
Tick == 15
\* isNewSession(filePath): a failing statSync counts as a new session
isNewSession_AnyGap(d, key, t, statThrows) == statThrows \/ t - d.days[key].mtime > 0
isNewSession(d, key, t, statThrows) ==
    statThrows \/ t - d.days[key].mtime > ThirtyMinutes

\* faulty variant of updateIndex: without an index file nothing is recorded
updateIndex_NeedsIndexFile(d, id, date, fails) ==
    IF fails \/ ~Exists(d.index, id) \/ d.index[id].corrupt THEN d
    ELSE LET index == d.index[id]
             content == d.days[<<id, date>>].content
             session == [date |-> date, size |-> Len(content),
                         exchangeCount |-> CountRecords(content)]
             ss == index.sessions
             sessions == IF \E i \in 1..Len(ss) : ss[i].date = date
                         THEN LET e == CHOOSE i \in 1..Len(ss) :
                                          ss[i].date = date
                                              /\ \A j \in 1..(i - 1) : ss[j].date # date
                              IN  [ss EXCEPT ![e] = session]
                         ELSE Append(ss, session)
         IN  [d EXCEPT !.index = Put(@, id, [index EXCEPT !.sessions = sessions])]

\* updateIndex(projectId, date, filePath): every failure inside is logged only
updateIndex(d, id, date, fails) ==
    IF fails \/ (Exists(d.index, id) /\ d.index[id].corrupt) THEN d
    ELSE LET index == IF Exists(d.index, id) THEN d.index[id]
                      ELSE [corrupt |-> FALSE, projectPath |-> <<>>, projectId |-> id,
                            sessions |-> <<>>]
             content == d.days[<<id, date>>].content
             session == [date |-> date, size |-> Len(content),
                         exchangeCount |-> CountRecords(content)]
             ss == index.sessions
             sessions == IF \E i \in 1..Len(ss) : ss[i].date = date
                         THEN LET e == CHOOSE i \in 1..Len(ss) :
                                          ss[i].date = date
                                              /\ \A j \in 1..(i - 1) : ss[j].date # date
                              IN  [ss EXCEPT ![e] = session]
                         ELSE Append(ss, session)
         IN  [d EXCEPT !.index = Put(@, id, [index EXCEPT !.sessions = sessions])]

\* what can go wrong while one project's queue is written: the directory
\* cannot be created, the day file is removed by someone else between the
\* existence test and statSync, the append fails, the index cannot be updated
FlushFailures == {"none", "mkdir", "vanish", "append", "index"}

\* the text appended for one queue: the session header when needed, then the
\* records in queue order
Appended(d, t, id, buffer, out) ==
    LET key == <<id, DateOf(t)>>
        needsSessionHeader ==
            ~Exists(d.days, key) \/ isNewSession(d, key, t, out = "vanish")
    IN  (IF needsSessionHeader THEN getSessionHeader(t) ELSE <<>>) \o Concat(buffer)

\* faulty variant of FlushOne: the date of the day file is not read anew, it
\* is the date of the previous timer period
FlushOne_StaleDate(d, t, id, buffer, out) ==
    LET key == <<id, DateOf(t - Tick)>>
        d0  == IF out = "vanish" THEN [d EXCEPT !.days = Remove(@, key)] ELSE d
        d1  == [d0 EXCEPT !.dirs = @ \cup {id}]
        old == IF Exists(d0.days, key) THEN d0.days[key].content ELSE <<>>
        hdr == IF ~Exists(d.days, key) \/ isNewSession(d, key, t, out = "vanish")
               THEN getSessionHeader(t) ELSE <<>>
        d2  == [d1 EXCEPT !.days = Put(@, key,
                    [content |-> old \o hdr \o Concat(buffer), mtime |-> t])]
    IN  IF buffer = <<>> \/ out = "mkdir" THEN d
        ELSE IF out = "append" THEN d1
        ELSE updateIndex(d2, id, DateOf(t - Tick), out = "index")

\* one iteration of the loop in flush(): the try block for one project
FlushOne(d, t, id, buffer, out) ==
    LET key == <<id, DateOf(t)>>
        d0  == IF out = "vanish" THEN [d EXCEPT !.days = Remove(@, key)] ELSE d
        d1  == [d0 EXCEPT !.dirs = @ \cup {id}]
        old == IF Exists(d0.days, key) THEN d0.days[key].content ELSE <<>>
        d2  == [d1 EXCEPT !.days = Put(@, key,
                    [content |-> old \o Appended(d, t, id, buffer, out), mtime |-> t])]
    IN  IF buffer = <<>> \/ out = "mkdir" THEN d
        ELSE IF out = "append" THEN d1
        ELSE updateIndex(d2, id, DateOf(t), out = "index")

\* faulty variant of the loop in flush(): one try block around the whole
\* loop, so that the first failure ends it
RECURSIVE FlushFrom_StopsAtFailure(_, _, _, _, _)
FlushFrom_StopsAtFailure(d, t, w, outs, i) ==
    IF i > Len(w) THEN d
    ELSE IF outs[i] \in {"mkdir", "append"}
    THEN FlushOne(d, t, w[i].id, w[i].buffer, outs[i])
    ELSE FlushFrom_StopsAtFailure(FlushOne(d, t, w[i].id, w[i].buffer, outs[i]), t, w,
                                  outs, i + 1)

RECURSIVE FlushFrom(_, _, _, _, _)
FlushFrom(d, t, w, outs, i) ==
    IF i > Len(w) THEN d
    ELSE FlushFrom(FlushOne(d, t, w[i].id, w[i].buffer, outs[i]), t, w, outs, i + 1)

\* which failures are possible for the queues w on disk d
FlushReaches(d, t, w, outs) ==
    \A i \in 1..Len(w) :
        /\ outs[i] = "mkdir"  => w[i].id \notin d.dirs
        /\ outs[i] = "vanish" => Exists(d.days, <<w[i].id, DateOf(t)>>)
FlushInputs(outs) == FlushReaches(fs, now, writeBuffers, outs)

\* faulty variant: the queues are not cleared after they were written
flush_KeepsQueues(caller) ==
    \E outs \in [1..Len(writeBuffers) -> FlushFailures] :
        /\ FlushInputs(outs)
        /\ fs' = FlushFrom(fs, now, writeBuffers, outs, 1)
        /\ lastOp' = [op |-> "flush", caller |-> caller, outs |-> outs]
        /\ UNCHANGED <<uuids, now, writeBuffers>>

\* flush(): every queue is written, then all queues are cleared
flush(caller) ==
    \E outs \in [1..Len(writeBuffers) -> FlushFailures] :
        /\ FlushInputs(outs)
        /\ fs' = FlushFrom(fs, now, writeBuffers, outs, 1)
        /\ writeBuffers' = <<>>
        /\ lastOp' = [op |-> "flush", caller |-> caller, outs |-> outs]
        /\ UNCHANGED <<uuids, now>>

\* setInterval(() => this.flush(), 30000)
flushTimerFires == flushTimer /\ flush("timer") /\ UNCHANGED flushTimer

\* shutdown(): the timer is cleared, then the final flush
shutdown == flushTimer' = FALSE /\ flush("shutdown")

\* time passes
Advance ==
    /\ now + Tick <= MaxNow
    /\ now' = now + Tick
    /\ lastOp' = [op |-> "advance"]
    /\ UNCHANGED <<fs, writeBuffers, uuids, flushTimer>>

\* ---- search
\* String.prototype.toLowerCase over the letters that occur
LowerCase(c) == IF c = "F" THEN "f" ELSE IF c = "X" THEN "x" ELSE c
toLowerCase(str) == [i \in 1..Len(str) |-> LowerCase(str[i])]
\* String.prototype.includes
includes(str, q) == \E i \in 0..(Len(str) - Len(q)) : SubSeq(str, i + 1, i + Len(q)) = q

\* lines.slice(start, end).join('\n'), with 0-based start and exclusive end
RECURSIVE JoinLines(_)
JoinLines(ls) ==
    IF ls = <<>> THEN <<>>
    ELSE IF Len(ls) = 1 THEN ls[1]
    ELSE ls[1] \o <<"\n">> \o JoinLines(Tail(ls))
SliceLines(lines, start, end) == SubSeq(lines, start + 1, end)

Max(a, b) == IF a > b THEN a ELSE b
Min(a, b) == IF a < b THEN a ELSE b

DefaultLimit == 50
ContextBefore == 2
ContextAfter == 3

\* faulty variant of the scan loop: the budget is not looked at inside a file
RECURSIVE ScanLines_NoBudget(_, _, _, _, _)
ScanLines_NoBudget(lines, q, i, total, limit) ==
    IF ~(i < Len(lines)) THEN <<>>
    ELSE IF includes(toLowerCase(lines[i + 1]), q)
    THEN LET start == Max(0, i - ContextBefore)
             end   == Min(Len(lines), i + ContextAfter)
         IN  <<[start |-> start, end |-> end]>>
                 \o ScanLines_NoBudget(lines, q, end + 1, total + 1, limit)
    ELSE ScanLines_NoBudget(lines, q, i + 1, total, limit)

\* faulty variant of the scan loop: after a block the scan goes on with the
\* line that follows the block
RECURSIVE ScanLines_ResumeAtEnd(_, _, _, _, _)
ScanLines_ResumeAtEnd(lines, q, i, total, limit) ==
    IF ~(i < Len(lines) /\ total < limit) THEN <<>>
    ELSE IF includes(toLowerCase(lines[i + 1]), q)
    THEN LET start == Max(0, i - ContextBefore)
             end   == Min(Len(lines), i + ContextAfter)
         IN  <<[start |-> start, end |-> end]>>
                 \o ScanLines_ResumeAtEnd(lines, q, end, total + 1, limit)
    ELSE ScanLines_ResumeAtEnd(lines, q, i + 1, total, limit)

\* the scan loop over the lines of one file, from 0-based line i with total
\* blocks emitted so far: the blocks found, as line ranges [start, end)
RECURSIVE ScanLines(_, _, _, _, _)
ScanLines(lines, q, i, total, limit) ==
    IF ~(i < Len(lines) /\ total < limit) THEN <<>>
    ELSE IF includes(toLowerCase(lines[i + 1]), q)
    THEN LET start == Max(0, i - ContextBefore)
             end   == Min(Len(lines), i + ContextAfter)
         IN  <<[start |-> start, end |-> end]>>
                 \o ScanLines(lines, q, end + 1, total + 1, limit)
    ELSE ScanLines(lines, q, i + 1, total, limit)

\* readdirSync(dir).filter(f => f.endsWith('.md')).sort((a, b) => b.localeCompare(a)):
\* the day files of a project, newest name first
RECURSIVE SortDesc(_)
SortDesc(ds) ==
    IF ds = {} THEN <<>>
    ELSE LET m == CHOOSE x \in ds : \A y \in ds : y <= x IN <<m>> \o SortDesc(ds \ {m})
DayFiles(d, id) == SortDesc({key[2] : key \in {k \in DOMAIN d.days : k[1] = id}})

\* the loop over the files; failAt is the 1-based position of the file whose
\* read throws (0: none), which ends the search with the results so far
RECURSIVE SearchFiles(_, _, _, _, _, _, _, _)
SearchFiles(d, id, files, k, q, total, limit, failAt) ==
    IF k > Len(files) \/ total >= limit \/ k = failAt THEN <<>>
    ELSE LET lines  == SplitLines(d.days[<<id, files[k]>>].content)
             blocks == ScanLines(lines, q, 0, total, limit)
             group  == [date |-> files[k], blocks |-> blocks,
                        matches |-> [b \in 1..Len(blocks) |->
                            JoinLines(SliceLines(lines, blocks[b].start, blocks[b].end))]]
             rest   == SearchFiles(d, id, files, k + 1, q, total + Len(blocks), limit,
                                   failAt)
         IN  IF blocks = <<>> THEN rest ELSE <<group>> \o rest

\* search(projectId, query, limit = 50)
NoLimit == [given |-> FALSE]
Limit(n) == [given |-> TRUE, n |-> n]
SearchResult(d, id, query, limit, failAt) ==
    IF id \notin d.dirs THEN <<>>
    ELSE SearchFiles(d, id, DayFiles(d, id), 1, toLowerCase(query), 0,
                     IF limit.given THEN limit.n ELSE DefaultLimit, failAt)

search(id, query, limit) ==
    \E failAt \in 0..Len(DayFiles(fs, id)) :
        /\ lastOp' = [op |-> "search", id |-> id, query |-> query, limit |-> limit,
                      failAt |-> failAt,
                      ret |-> SearchResult(fs, id, query, limit, failAt)]
        /\ UNCHANGED <<fs, writeBuffers, uuids, now, flushTimer>>

\* the transcripts that are searched: lines that hold the query in another
\* case inside other text, and lines that do not hold it
LineKinds == {<<"a", "F", "o">>, <<"x">>}
Texts(n)  == {JoinLines(ls) : ls \in UNION {[1..m -> LineKinds] : m \in 1..n}}
Queries   == {<<"F">>}
Limits    == {NoLimit} \cup {Limit(n) : n \in 0..MaxLimit}
SearchIds == {Uuid(1), Uuid(2)}
\* the history directory of project u1 holds day files for the latest days
Corpus(days, text) ==
    [markers |-> <<>>, dirs |-> {Uuid(1)}, index |-> <<>>,
     days |-> [key \in {<<Uuid(1), day>> : day \in days} |->
                  [content |-> text[key[2]], mtime |-> 0]]]
InitSearch ==
    /\ platform = "linux" /\ ptys = <<>>
    /\ proc = [s \in SessIds |-> "none"] /\ procPane = [s \in SessIds |-> 0]
    /\ cachedPath = NullPath /\ shellRan = FALSE
    /\ lastOp = [op |-> "init"]
    /\ writeBuffers = <<>> /\ uuids = 1 /\ now = 0 /\ flushTimer = TRUE
    /\ paneProjectIds = <<>> /\ outputBuffers = <<>>
    /\ historyFlushTimer = TRUE /\ workspace = createDefaultWorkspace
    /\ RendererInit
    /\ \E n \in 1..MaxDays :
          \E text \in [1..n -> Texts(MaxLines)] :
              /\ \A day \in 1..(n - 1) : Len(SplitLines(text[day])) <= MaxOldLines
              /\ fs = Corpus(1..n, text)

\* ---- reading the store
\* index.sessions.sort((a, b) => b.date.localeCompare(a.date))
RECURSIVE SortSessions(_)
SortSessions(ss) ==
    IF ss = <<>> THEN <<>>
    ELSE LET m == CHOOSE i \in 1..Len(ss) :
                     /\ \A j \in 1..Len(ss) : ss[j].date <= ss[i].date
                     /\ \A j \in 1..(i - 1) : ss[j].date < ss[i].date
         IN  <<ss[m]>> \o SortSessions(SubSeq(ss, 1, m - 1) \o SubSeq(ss, m + 1, Len(ss)))

\* getSessions(projectId): a failing read or JSON.parse is logged, [] is returned
getSessions(d, id, readThrows) ==
    IF Exists(d.index, id) /\ ~readThrows /\ ~d.index[id].corrupt
    THEN SortSessions(d.index[id].sessions)
    ELSE <<>>

\* getDayContent(projectId, date): a failing read is logged, '' is returned
getDayContent(d, id, date, readThrows) ==
    IF Exists(d.days, <<id, date>>) /\ ~readThrows
    THEN d.days[<<id, date>>].content
    ELSE <<>>

\* deleteDay(projectId, date): the day file and the day's index entry are
\* removed; the result tells whether the file existed
deleteDay(d, id, date) ==
    LET key == <<id, date>>
        d1  == [d EXCEPT !.days = Remove(@, key)]
        d2  == IF Exists(d.index, id) /\ ~d.index[id].corrupt
               THEN [d1 EXCEPT !.index[id].sessions =
                                   SelectSeq(@, LAMBDA e : e.date # date)]
               ELSE d1
    IN  [fs |-> d2, ret |-> Exists(d.days, key)]

\* ---- the IPC handlers of the store: historyManager?.call(...) || default
\* faulty variant: the reply does not depend on the result
DeleteDayReply_AlwaysTrue(ret) == TRUE
\* historyManager?.deleteDay(projectId, date) || false
DeleteDayReply(ret) == ret \/ FALSE

HistoryDeleteDay(id, date) ==
    /\ \E r \in {deleteDay(fs, id, date)} :
        /\ fs' = r.fs
        /\ lastOp' = [op |-> "HISTORY_DELETE_DAY", id |-> id, date |-> date,
                      ret |-> DeleteDayReply(r.ret)]
    /\ UNCHANGED <<writeBuffers, uuids, now, flushTimer>>

HistoryGetSessions(id) ==
    /\ \E readThrows \in BOOLEAN :
        /\ readThrows => Exists(fs.index, id)
        /\ lastOp' = [op |-> "HISTORY_GET_SESSIONS", id |-> id, threw |-> readThrows,
                      ret |-> getSessions(fs, id, readThrows)]
    /\ UNCHANGED <<fs, writeBuffers, uuids, now, flushTimer>>

HistoryGetDay(id, date) ==
    /\ \E readThrows \in BOOLEAN :
        /\ readThrows => Exists(fs.days, <<id, date>>)
        /\ lastOp' = [op |-> "HISTORY_GET_DAY", id |-> id, date |-> date,
                      threw |-> readThrows,
                      ret |-> getDayContent(fs, id, date, readThrows)]
    /\ UNCHANGED <<fs, writeBuffers, uuids, now, flushTimer>>

\* index.json is damaged from outside the application: it no longer parses
IndexCorrupted(id) ==
    /\ Exists(fs.index, id) /\ ~fs.index[id].corrupt
    /\ fs' = [fs EXCEPT !.index[id].corrupt = TRUE]
    /\ lastOp' = [op |-> "indexCorrupted", id |-> id]
    /\ UNCHANGED <<writeBuffers, uuids, now, flushTimer>>

\* ======================================================================
\* The capture pipeline of the main process
\* ======================================================================
\* ---- stripAnsi
ESC == "<esc>"
BEL == "<bel>"
Digits  == {"0", "1", "2"}
Letters == {"a", "b", "c", "d", "h", "l", "m", "s", "x", "A", "B", "F", "K", "X"}
\* [\x20-\x2F] and [\x40-\x7E] over the characters that occur
Intermediates == {" ", "(", ")", "/", "'", "\""}
Finals == Letters \cup {"[", "]", "\\", "~"}

\* how many leading characters of s belong to the set cs
RECURSIVE Span(_, _)
Span(s, cs) == IF s # <<>> /\ s[1] \in cs THEN 1 + Span(Tail(s), cs) ELSE 0

\* the length of the match of each pattern at the start of s, 0 when the
\* pattern does not match there
\* /\x1B\[\??[0-9;]*[a-zA-Z]/
MatchCsi(s) ==
    IF Len(s) >= 2 /\ s[1] = ESC /\ s[2] = "["
    THEN LET q == IF Len(s) >= 3 /\ s[3] = "?" THEN 1 ELSE 0
             n == Span(SubSeq(s, 3 + q, Len(s)), Digits \cup {";"})
             withQ == IF Len(s) >= 3 + q + n /\ s[3 + q + n] \in Letters
                      THEN 3 + q + n ELSE 0
             m == Span(SubSeq(s, 3, Len(s)), Digits \cup {";"})
             noQ   == IF Len(s) >= 3 + m /\ s[3 + m] \in Letters THEN 3 + m ELSE 0
         IN  IF withQ > 0 THEN withQ ELSE noQ
    ELSE 0
\* /\x1B\[\?[0-9;]*[hl]/
MatchMode(s) ==
    IF Len(s) >= 3 /\ s[1] = ESC /\ s[2] = "[" /\ s[3] = "?"
    THEN LET n == Span(SubSeq(s, 4, Len(s)), Digits \cup {";"}) IN
         IF Len(s) >= 4 + n /\ s[4 + n] \in {"h", "l"} THEN 4 + n ELSE 0
    ELSE 0
\* /\x1B\].*?\x07/ : the dot does not match a line terminator
MatchOscBel(s) ==
    IF Len(s) >= 2 /\ s[1] = ESC /\ s[2] = "]"
    THEN LET n == Span(SubSeq(s, 3, Len(s)),
                       {s[i] : i \in 1..Len(s)} \ ({BEL} \cup EOL)) IN
         IF Len(s) >= 3 + n /\ s[3 + n] = BEL THEN 3 + n ELSE 0
    ELSE 0
\* /\x1B\][^\x07]*(?:\x1B\\)?/ : the greedy class also takes ESC and backslash
MatchOscSt(s) ==
    IF Len(s) >= 2 /\ s[1] = ESC /\ s[2] = "]"
    THEN 2 + Span(SubSeq(s, 3, Len(s)), {s[i] : i \in 1..Len(s)} \ {BEL})
    ELSE 0
\* /\x1B[()][AB012]/
MatchCharset(s) ==
    IF Len(s) >= 3 /\ s[1] = ESC /\ s[2] \in {"(", ")"}
          /\ s[3] \in {"A", "B", "0", "1", "2"}
    THEN 3 ELSE 0
\* /\x1B[\x20-\x2F]*[\x40-\x7E]/
MatchOther(s) ==
    IF s # <<>> /\ s[1] = ESC
    THEN LET n == Span(Tail(s), Intermediates) IN
         IF Len(s) >= 2 + n /\ s[2 + n] \in Finals THEN 2 + n ELSE 0
    ELSE 0
\* /\x1B[=>]/
MatchKeypad(s) ==
    IF Len(s) >= 2 /\ s[1] = ESC /\ s[2] \in {"=", ">"} THEN 2 ELSE 0
\* /\r/
MatchCr(s) == IF s # <<>> /\ s[1] = "\r" THEN 1 ELSE 0

\* the patterns of stripAnsi, in the order in which they are applied
AnsiPatterns == <<"csi", "mode", "oscBel", "oscSt", "charset", "other", "keypad", "cr">>
Match(pat, s) ==
    CASE pat = "csi"     -> MatchCsi(s)
      [] pat = "mode"    -> MatchMode(s)
      [] pat = "oscBel"  -> MatchOscBel(s)
      [] pat = "oscSt"   -> MatchOscSt(s)
      [] pat = "charset" -> MatchCharset(s)
      [] pat = "other"   -> MatchOther(s)
      [] pat = "keypad"  -> MatchKeypad(s)
      [] pat = "cr"      -> MatchCr(s)

\* str.replace(/pattern/g, ''): matches are removed from left to right
RECURSIVE ReplaceAll(_, _)
ReplaceAll(s, pat) ==
    IF s = <<>> THEN <<>>
    ELSE IF Match(pat, s) > 0 THEN ReplaceAll(SubSeq(s, Match(pat, s) + 1, Len(s)), pat)
    ELSE <<s[1]>> \o ReplaceAll(Tail(s), pat)

RECURSIVE ReplaceEach(_, _)
ReplaceEach(s, pats) ==
    IF pats = <<>> THEN s ELSE ReplaceEach(ReplaceAll(s, Head(pats)), Tail(pats))

stripAnsi(str) == ReplaceEach(str, AnsiPatterns)


\* ---- cleanTerminalOutput
Spinner == "<spinner>"                 \* one of the spinner and progress glyphs
BoxChar == "<box>"                     \* one of the box-drawing characters
Ellipsis == "<ellipsis>"
ProgressWords == {"Running", "Thinking"}

\* the filter of cleanTerminalOutput: is the line kept
KeepLine(line) ==
    LET trimmed == Trim(line) IN
    \/ trimmed = <<>>
    \/ /\ ~(\A i \in 1..Len(trimmed) : trimmed[i] \in {Spinner} \cup Whitespace)
       /\ ~(\A i \in 1..Len(trimmed) : trimmed[i] \in {BoxChar} \cup Whitespace)
       /\ ~(/\ trimmed[1] \in ProgressWords
            /\ \/ Len(trimmed) = 1
               \/ Len(trimmed) = 2 /\ trimmed[2] = Ellipsis)

\* str.replace(/\n{3,}/g, '\n\n')
RECURSIVE CollapseBlank(_)
CollapseBlank(s) ==
    IF s = <<>> THEN <<>>
    ELSE LET n == Span(s, {"\n"}) IN
         IF n >= 3 THEN <<"\n", "\n">> \o CollapseBlank(SubSeq(s, n + 1, Len(s)))
         ELSE <<s[1]>> \o CollapseBlank(Tail(s))

cleanTerminalOutput(str) ==
    Trim(CollapseBlank(JoinLines(SelectSeq(SplitLines(str), KeepLine))))

\* str.replace(/[\r\n]+/g, '\n')
RECURSIVE CollapseEol(_)
CollapseEol(s) ==
    IF s = <<>> THEN <<>>
    ELSE LET n == Span(s, EOL) IN
         IF n >= 1 THEN <<"\n">> \o CollapseEol(SubSeq(s, n + 1, Len(s)))
         ELSE <<s[1]>> \o CollapseEol(Tail(s))

\* ---- the state the handlers of the main process work on
World == [ptys |-> ptys, fs |-> fs, uuids |-> uuids, ppi |-> paneProjectIds,
          wb |-> writeBuffers]

\* no probe is run and no marker is touched
NoResolve == [probe |-> NotRun, fail |-> "none"]

\* resolveProjectId(paneId) with the outcome of the probe and of the marker I/O
resolveProjectId(W, p, in) ==
    IF ~Has(W.ptys, p) THEN W
    ELSE LET cwd == ProbedCwd(platform, Get(W.ptys, p).cwd, in.probe)
             W1  == [W EXCEPT !.ptys = SetCwd(@, p, cwd)]
             r   == GetOrCreateOutcome(W.fs, W.uuids, cwd, in.fail)
         IN  IF cwd = <<>> THEN W1
             ELSE [W1 EXCEPT !.fs = r.fs, !.uuids = r.uuids, !.ppi = Put(@, p, r.ret)]

\* the outcomes that resolveProjectId(paneId) can meet in world W
ResolveOk(W, p, in) ==
    IF ~Has(W.ptys, p) THEN in = NoResolve
    ELSE /\ in.probe \in Probes(platform)
         /\ LET cwd == ProbedCwd(platform, Get(W.ptys, p).cwd, in.probe) IN
            IF cwd = <<>> THEN in.fail = "none"
            ELSE ResolveReaches(W.fs, cwd, in.fail)

\* if (!paneProjectIds.has(paneId)) resolveProjectId(paneId)
LazyResolve(W, p, in) == IF Exists(W.ppi, p) THEN W ELSE resolveProjectId(W, p, in)
LazyResolveOk(W, p, in) == IF Exists(W.ppi, p) THEN in = NoResolve ELSE ResolveOk(W, p, in)

\* const projectId = paneProjectIds.get(paneId); if (projectId) appendExchange(...)
Submit(W, t, p, type, text) ==
    IF Exists(W.ppi, p) /\ W.ppi[p] # <<>>
    THEN [W EXCEPT !.wb = AppendOutcome(@, t, W.ppi[p], p, type, text)]
    ELSE W

\* the calls of appendExchange made for pane p: under which id
Submitted(W, p) ==
    IF Exists(W.ppi, p) /\ W.ppi[p] # <<>> THEN <<[pane |-> p, id |-> W.ppi[p]]>>
    ELSE <<>>

\* the handler leaves the world W behind
Becomes(W) ==
    /\ ptys' = W.ptys
    /\ fs' = W.fs
    /\ uuids' = W.uuids
    /\ paneProjectIds' = W.ppi
    /\ writeBuffers' = W.wb
    /\ W.uuids <= MaxUuids
    /\ Queued(W.wb) + Stored(W.fs) <= MaxRecords
    /\ \A i \in 1..Len(W.ptys) : Len(W.ptys[i].cwd) <= MaxCwdLen

\* the shell lookup of a createPty call: it runs when no PATH is cached
ShellOutcome == IF NeedsDiscovery(cachedPath) THEN [ok |-> TRUE, out |-> LoginPath] ELSE NotRun

\* ---- ipcMain.handle(PTY_CREATE): createPty, then the project is resolved
PtyCreate(p, d, killThrows, spawnThrows, o, in) ==
    /\ CreateInputs(p, killThrows, spawnThrows, o)
    /\ \E c \in {CreateOutcome(p, d, killThrows, spawnThrows, o)} :
       \E W0 \in {[World EXCEPT !.ptys = c.ptys]} :
        /\ IF c.lastOp.ret THEN ResolveOk(W0, p, in) ELSE in = NoResolve
        /\ \E W1 \in {IF c.lastOp.ret THEN resolveProjectId(W0, p, in) ELSE W0} :
              Becomes(W1)
        /\ proc' = c.proc
        /\ procPane' = c.procPane
        /\ cachedPath' = c.cachedPath
        /\ shellRan' = c.shellRan
        /\ lastOp' = [op |-> "PTY_CREATE", pane |-> p, dir |-> d, ret |-> c.lastOp.ret]
    /\ UNCHANGED <<platform, now, flushTimer, outputBuffers, historyFlushTimer, workspace>>

\* ---- ipcMain.handle(PTY_KILL)
\* faulty variant: the pane's pending output is discarded with its session
PtyKill_DropsBuffer(p) ==
    /\ killPty(p)
    /\ outputBuffers' = Delete(outputBuffers, p)
    /\ UNCHANGED <<histVars, paneProjectIds, historyFlushTimer, workspace, rendVars>>

PtyKill(p) == killPty(p) /\ UNCHANGED <<histVars, captVars, rendVars>>

\* ---- ipcMain.on(TERMINAL_INPUT): the bytes are written, a line is recorded
InputText(data) == Trim(CollapseEol(stripAnsi(data)))
IsLine(data) == \E i \in 1..Len(data) : data[i] \in EOL
\* faulty variant: every input with a line terminator is recorded
Recordable_AnyLine(data) == IsLine(data)
\* (data.includes('\r') || data.includes('\n')) and cleaned.length > 1
Recordable(data) == IsLine(data) /\ Len(InputText(data)) > 1

\* faulty variant: the handler looks up the project first and returns when the
\* pane has no persistent project
InputForwarded_AfterCapture(W, p, data) ==
    IF Has(W.ptys, p) /\ ~(Exists(W.ppi, p) /\ IsEphemeral(W.ppi[p]))
    THEN <<data>> ELSE <<>>
\* ptyManager?.write(paneId, data) is the first statement: what the child of
\* the pane receives, whatever the history capture that follows meets
InputForwarded(W, p, data) == IF Has(W.ptys, p) THEN <<data>> ELSE <<>>

TerminalInput(p, data, in) ==
    \E text \in {InputText(data)} :
    \E W0 \in {IF Has(ptys, p)
                THEN [World EXCEPT !.ptys = SetCwd(@, p, TrackCd(Get(ptys, p).cwd, data))]
                ELSE World} :
        LET recorded == Recordable(data) IN
        /\ IF recorded THEN LazyResolveOk(W0, p, in) ELSE in = NoResolve
        /\ \E W2 \in {IF recorded
                       THEN Submit(LazyResolve(W0, p, in), now, p, "input", text)
                       ELSE W0} :
            /\ Becomes(W2)
            /\ lastOp' = [op |-> "TERMINAL_INPUT", pane |-> p, data |-> data,
                          forwarded |-> InputForwarded(World, p, data),
                          submitted |-> IF recorded THEN Submitted(W2, p) ELSE <<>>]
        /\ UNCHANGED <<platform, proc, procPane, cachedPath, shellRan, now,
                       flushTimer, outputBuffers, historyFlushTimer, workspace, rendVars>>

\* ---- the onOutput callback: data of a session is sent to the window, then
\* buffered for its pane
BufferOf(ob, p) == IF Has(ob, p) THEN Get(ob, p).buffer ELSE <<>>
SetBuffer(ob, p, text) ==
    IF Has(ob, p)
    THEN [i \in 1..Len(ob) |-> IF ob[i].paneId = p THEN [ob[i] EXCEPT !.buffer = text]
                               ELSE ob[i]]
    ELSE Append(ob, [paneId |-> p, buffer |-> text])

onOutput(s, data) ==
    /\ proc[s] \in {"running", "exiting"}
    /\ Len(BufferOf(outputBuffers, procPane[s]) \o data) <= MaxBuffer
    /\ outputBuffers' = SetBuffer(outputBuffers, procPane[s],
                                  BufferOf(outputBuffers, procPane[s]) \o data)
    /\ lastOp' = [op |-> "onOutput", pane |-> procPane[s], sess |-> s, data |-> data,
                  sent |-> <<procPane[s], data>>]
    /\ UNCHANGED <<ptyVars, histVars, paneProjectIds, historyFlushTimer, workspace, rendVars>>

\* ---- flushOutputHistory(): one pass over the buffered panes
\* the world after the entries from position i on were handled; ins[i] is what
\* the resolution for entry i meets
RECURSIVE FlushOutputFrom(_, _, _, _, _)
FlushOutputFrom(W, ob, t, ins, i) ==
    IF i > Len(ob) THEN W
    ELSE LET p  == ob[i].paneId
             W1 == LazyResolve(W, p, ins[i])
             cleaned == cleanTerminalOutput(stripAnsi(ob[i].buffer))
             W2 == IF cleaned # <<>> THEN Submit(W1, t, p, "output", cleaned) ELSE W1
         IN  IF Trim(ob[i].buffer) = <<>> THEN FlushOutputFrom(W, ob, t, ins, i + 1)
             ELSE FlushOutputFrom(W2, ob, t, ins, i + 1)

\* the calls of appendExchange made by one pass that ended in world W
RECURSIVE FlushSubmitted(_, _, _)
FlushSubmitted(W, ob, i) ==
    IF i > Len(ob) THEN <<>>
    ELSE (IF Trim(ob[i].buffer) # <<>>
             /\ cleanTerminalOutput(stripAnsi(ob[i].buffer)) # <<>>
          THEN Submitted(W, ob[i].paneId) ELSE <<>>)
         \o FlushSubmitted(W, ob, i + 1)

RECURSIVE FlushOutputOk(_, _, _, _, _)
FlushOutputOk(W, ob, t, ins, i) ==
    IF i > Len(ob) THEN TRUE
    ELSE IF Trim(ob[i].buffer) = <<>>
    THEN ins[i] = NoResolve /\ FlushOutputOk(W, ob, t, ins, i + 1)
    ELSE /\ LazyResolveOk(W, ob[i].paneId, ins[i])
         /\ FlushOutputOk(FlushOutputFrom(W, SubSeq(ob, 1, i), t, ins, i), ob, t, ins,
                          i + 1)

\* faulty variant of clear: the text of which nothing was submitted stays
\* buffered for the next pass
clear_KeepsUnsubmitted(ob) ==
    SelectSeq(ob, LAMBDA e : cleanTerminalOutput(stripAnsi(e.buffer)) = <<>>)

\* outputBuffers.clear()
clear(ob) == <<>>

flushOutputHistory(ins) ==
    /\ FlushOutputOk(World, outputBuffers, now, ins, 1)
    /\ \E W \in {FlushOutputFrom(World, outputBuffers, now, ins, 1)} :
        /\ Becomes(W)
        /\ lastOp' = [op |-> "flushOutputHistory",
                      panes |-> {outputBuffers[i].paneId : i \in
                                    {j \in 1..Len(outputBuffers) :
                                        Trim(outputBuffers[j].buffer) # <<>>}},
                      submitted |-> FlushSubmitted(W, outputBuffers, 1)]
    /\ outputBuffers' = clear(outputBuffers)
    /\ UNCHANGED <<platform, proc, procPane, cachedPath, shellRan, now, flushTimer,
                   workspace, rendVars>>

\* setInterval(() => flushOutputHistory(), 5000)
outputTimerFires(ins) ==
    historyFlushTimer /\ flushOutputHistory(ins) /\ UNCHANGED historyFlushTimer

\* stopHistoryCapture(): the timer is cleared, then the final pass
stopHistoryCapture(ins) == historyFlushTimer' = FALSE /\ flushOutputHistory(ins)

\* ---- app.on('before-quit')
\* getAllCwds(): every registered session is probed; pr[i] is what the probe of
\* entry i gives
getAllCwds(m, pr) == [i \in 1..Len(m) |-> [m[i] EXCEPT !.cwd = ProbedCwd(platform, @, pr[i])]]

\* WorkspaceManager.load(): a stored directory that no longer exists is
\* replaced by the home directory; while there are fewer than four panes,
\* createDefaultPaneConfig(panes.length) is pushed; panes.slice(0, 4)
load(ws, missing) ==
    LET checked == [i \in 1..Len(ws) |->
                       IF ws[i].id \in missing
                       THEN [ws[i] EXCEPT !.workingDirectory = Home] ELSE ws[i]]
        padded  == [i \in 1..(IF Len(ws) < StoredPanes THEN StoredPanes ELSE Len(ws)) |->
                       IF i <= Len(ws) THEN checked[i] ELSE createDefaultPaneConfig(i - 1)]
    IN  SubSeq(padded, 1, StoredPanes)

\* updatePaneCwds(cwds) once the store has been loaded
updatePaneCwds(ws, m) ==
    [i \in 1..Len(ws) |->
        IF Has(m, ws[i].id) /\ Get(m, ws[i].id).cwd # <<>>
        THEN [ws[i] EXCEPT !.workingDirectory = Get(m, ws[i].id).cwd] ELSE ws[i]]

\* the handler: the directories are saved, the output pass and the history
\* store are stopped and drained, the sessions are killed.  store.set() of the
\* workspace store is not inside a try block: when it throws, the rest of the
\* handler is not run.  outs covers MaxUuids queues, n sessions are killed
\* before a kill() throws.
beforeQuit(pr, missing, storeThrows, ins, outs, n) ==
    \E m1 \in {getAllCwds(ptys, pr)} :
        /\ \A i \in 1..Len(m1) : Len(m1[i].cwd) <= MaxCwdLen
        /\ storeThrows => \E i \in 1..Len(m1) : m1[i].cwd # <<>>
        /\ IF storeThrows
           THEN /\ ptys' = m1
                /\ lastOp' = [op |-> "before-quit", drained |-> FALSE, threw |-> TRUE]
                /\ UNCHANGED <<proc, fs, writeBuffers, uuids, flushTimer, paneProjectIds,
                               outputBuffers, historyFlushTimer, workspace, rendVars>>
           ELSE \E W0 \in {[World EXCEPT !.ptys = m1]} :
                /\ FlushOutputOk(W0, outputBuffers, now, ins, 1)
                /\ \E W1 \in {FlushOutputFrom(W0, outputBuffers, now, ins, 1)} :
                    /\ W1.uuids <= MaxUuids
                    /\ Queued(W1.wb) + Stored(W1.fs) <= MaxRecords
                    /\ FlushReaches(W1.fs, now, W1.wb, outs)
                    /\ \A i \in (Len(W1.wb) + 1)..MaxUuids : outs[i] = "none"
                    /\ n <= Len(W1.ptys)
                    /\ fs' = FlushFrom(W1.fs, now, W1.wb, outs, 1)
                    /\ uuids' = W1.uuids
                    /\ paneProjectIds' = W1.ppi
                    /\ ptys' = KillFirst(W1.ptys, proc, n).ptys
                    /\ proc' = KillFirst(W1.ptys, proc, n).proc
                    /\ lastOp' = [op |-> "before-quit", drained |-> TRUE,
                                  threw |-> n < Len(W1.ptys)]
                /\ writeBuffers' = <<>>
                /\ outputBuffers' = clear(outputBuffers)
                /\ historyFlushTimer' = FALSE
                /\ flushTimer' = FALSE
                /\ workspace' = IF \E i \in 1..Len(m1) : m1[i].cwd # <<>>
                                THEN updatePaneCwds(load(workspace, missing), m1)
                                ELSE workspace
        /\ UNCHANGED <<platform, procPane, cachedPath, shellRan, now, rendVars>>

\* what the renderer sends and what the children print
InputData  == {CdLine(<<"/", "t">>, <<"\r">>), <<"l", "s", "\r">>, <<"l">>}
OutputData == {<<"o", "k", "\r", "\n">>, <<Spinner, "\n">>}

\* ------------------------------------------------------------ specification
\* the PtyManager called directly: the history store and the capture pipeline
\* of the main process are not involved
NoHistory == UNCHANGED <<histVars, captVars, rendVars>>

Create(P)    == \E p \in P, d \in CreateDirs : createPty(p, d) /\ NoHistory
Kill(P)      == \E p \in P : killPty(p) /\ NoHistory
KillAll      == killAll /\ NoHistory
Write(P)     == \E p \in P, data \in WriteData : write(p, data) /\ NoHistory
GetCwd(P)    == \E p \in P : getCwd(p) /\ NoHistory
GitStatus(P) == \E p \in P : getGitStatus(p) /\ NoHistory
Terminate    == \E s \in SessIds : ChildTerminates(s) /\ NoHistory
ExitEvent    == \E s \in SessIds : onExitHandler(s) /\ NoHistory

\* the supervisor: sessions are created, killed and exit
Next == Create(Panes) \/ Kill(Panes) \/ KillAll \/ Terminate \/ ExitEvent
Spec == Init /\ [][Next]_vars

\* directory tracking: input is written to the sessions of the probed panes and
\* their directories are queried.  A PtyInstance owns its cwd, so what one pane
\* tracks does not depend on the other panes.
NextCwd == Create(ProbedPanes) \/ Kill(ProbedPanes) \/ Write(ProbedPanes)
              \/ GetCwd(ProbedPanes) \/ Terminate \/ ExitEvent
SpecCwd == Init /\ [][NextCwd]_vars

\* git status of the probed panes
NextGit == Create(ProbedPanes) \/ Kill(ProbedPanes) \/ GitStatus(ProbedPanes)
SpecGit == Init /\ [][NextGit]_vars

\* the supervisor with the event loop's guarantee that the exit event of a
\* child that has terminated is dispatched to the handler registered for it
SpecLive == Spec /\ \A s \in SessIds : WF_vars(onExitHandler(s) /\ NoHistory)

\* the history store called directly; it does not look at the platform
NoPty == UNCHANGED <<ptyVars, captVars, rendVars>>
InitHist == Init /\ platform = "linux"

\* project identity: projects are resolved, markers are edited from outside
Resolve    == \E path \in ProjectPaths : getOrCreateProjectId(path) /\ NoPty
EditMarker == \E path \in ProjectPaths : MarkerChanged(path) /\ NoPty
NextResolve == Resolve \/ EditMarker
SpecResolve == InitHist /\ [][NextResolve]_vars

\* the write queues: exchanges are queued and flushed while time passes
AppendEx   == \E id \in AppendIds, pane \in ProbedPanes, type \in ExchangeTypes,
                 content \in ExchangeTexts :
                  appendExchange(id, pane, type, content) /\ NoPty
TimerFlush == flushTimerFires /\ NoPty
Shutdown   == shutdown /\ NoPty
TimePasses == Advance /\ NoPty
NextHist == AppendEx \/ TimerFlush \/ Shutdown \/ TimePasses
SpecHist == InitHist /\ [][NextHist]_vars

\* exchanges whose text has a line that begins like a record are queued and
\* flushed
MarkedTexts == {<<"b">>, <<RecordMark, "x">>}
MarkedAppend == \E id \in {Uuid(1), Uuid(2)}, pane \in ProbedPanes, type \in ExchangeTypes,
                   content \in MarkedTexts :
                    appendExchange(id, pane, type, content) /\ NoPty
NextCount == MarkedAppend \/ TimerFlush \/ TimePasses
SpecCount == InitHist /\ [][NextCount]_vars

\* the application is started a quarter of an hour before midnight
InitLate ==
    /\ platform = "linux" /\ ptys = <<>>
    /\ proc = [s \in SessIds |-> "none"] /\ procPane = [s \in SessIds |-> 0]
    /\ cachedPath = NullPath /\ shellRan = FALSE
    /\ lastOp = [op |-> "init"]
    /\ fs = EmptyDisk /\ writeBuffers = <<>> /\ uuids = 0 /\ flushTimer = TRUE
    /\ now = -Tick
    /\ paneProjectIds = <<>> /\ outputBuffers = <<>>
    /\ historyFlushTimer = TRUE /\ workspace = createDefaultWorkspace
    /\ RendererInit
NextMidnight == AppendEx \/ TimerFlush \/ TimePasses
SpecMidnight == InitLate /\ [][NextMidnight]_vars

\* the workspace store holds any list of panes a store file can hold; it is
\* loaded, the directories of the live panes are written to it, it is reset
StoredIds    == 0..(StoredPanes - 1)
StoredStates == UNION {[1..n -> {createDefaultPaneConfig(id) : id \in StoredIds}] :
                           n \in 0..MaxStored}
CwdMaps      == {<<[paneId |-> q, cwd |-> Dir_p]>> : q \in StoredIds}
InitWorkspace ==
    /\ platform = "linux" /\ ptys = <<>>
    /\ proc = [s \in SessIds |-> "none"] /\ procPane = [s \in SessIds |-> 0]
    /\ cachedPath = NullPath /\ shellRan = FALSE
    /\ lastOp = [op |-> "init"]
    /\ fs = EmptyDisk /\ writeBuffers = <<>> /\ uuids = 0 /\ flushTimer = TRUE
    /\ now = 0
    /\ paneProjectIds = <<>> /\ outputBuffers = <<>>
    /\ historyFlushTimer = TRUE /\ workspace \in StoredStates
    /\ RendererInit
\* ipcMain.handle(WORKSPACE_LOAD): the store is read, not written
WorkspaceLoad ==
    \E missing \in {{}, {3}} :
        /\ lastOp' = [op |-> "workspace:load", panes |-> load(workspace, missing)]
        /\ UNCHANGED <<ptyVars, histVars, captVars, rendVars>>
\* updatePaneCwds(cwds) with a map that is not empty
WorkspaceUpdateCwds ==
    \E missing \in {{}, {3}}, m \in CwdMaps :
        /\ workspace' = updatePaneCwds(load(workspace, missing), m)
        /\ lastOp' = [op |-> "updatePaneCwds", pane |-> m[1].paneId]
        /\ UNCHANGED <<ptyVars, histVars, paneProjectIds, outputBuffers,
                       historyFlushTimer, rendVars>>
\* reset()
WorkspaceReset ==
    /\ workspace' = createDefaultWorkspace
    /\ lastOp' = [op |-> "reset"]
    /\ UNCHANGED <<ptyVars, histVars, paneProjectIds, outputBuffers,
                   historyFlushTimer, rendVars>>
NextWorkspace == WorkspaceLoad \/ WorkspaceUpdateCwds \/ WorkspaceReset
SpecWorkspace == InitWorkspace /\ [][NextWorkspace]_vars

\* the stored days are listed, read and deleted while exchanges are flushed
StoreIds  == {Uuid(1)}
StoreDays == {0, 1}
QueueEx    == \E id \in StoreIds, content \in ExchangeTexts :
                  appendExchange(id, 0, "input", content) /\ NoPty
DeleteDay   == \E id \in StoreIds, date \in StoreDays : HistoryDeleteDay(id, date) /\ NoPty
GetSessions == \E id \in StoreIds : HistoryGetSessions(id) /\ NoPty
GetDay      == \E id \in StoreIds, date \in StoreDays : HistoryGetDay(id, date) /\ NoPty
CorruptIndex == \E id \in StoreIds : IndexCorrupted(id) /\ NoPty
NextStore == QueueEx \/ TimerFlush \/ TimePasses \/ DeleteDay \/ GetSessions \/ GetDay
                \/ CorruptIndex
SpecStore == InitHist /\ [][NextStore]_vars

\* searching a stored corpus
Search == \E id \in SearchIds, query \in Queries, limit \in Limits :
              search(id, query, limit) /\ NoPty
NextSearch == Search
SpecSearch == InitSearch /\ [][NextSearch]_vars

\* the capture pipeline up to the write queues: sessions are created through
\* the IPC handler, input arrives, children print, the output timer fires
CaptureResolves == {NoResolve} \cup
    [probe : {[ok |-> FALSE, out |-> <<>>], [ok |-> TRUE, out |-> <<"/", "t">>]},
     fail : {"none"}]
CaptureShell == {NotRun, [ok |-> TRUE, out |-> LoginPath]}
CaptureInput == {CdLine(<<"/", "t">>, <<"\r">>), <<"l", "s", "\r">>}
CreateViaIpc == \E p \in ProbedPanes, d \in CreateDirs, in \in CaptureResolves :
                    PtyCreate(p, d, FALSE, FALSE, ShellOutcome, in) /\ UNCHANGED rendVars
Input        == \E p \in ProbedPanes, data \in CaptureInput, in \in CaptureResolves :
                    TerminalInput(p, data, in)
Output       == \E s \in SessIds, data \in OutputData : onOutput(s, data)
OutputFlush  == \E ins \in [1..Len(outputBuffers) -> CaptureResolves] :
                    outputTimerFires(ins)
NextCapture == CreateViaIpc \/ Input \/ Output \/ OutputFlush
SpecCapture == InitHist /\ [][NextCapture]_vars

\* the application runs and is quit; the history disk works, the write of the
\* workspace store can fail
QuitResolves == {NoResolve, [probe |-> [ok |-> FALSE, out |-> <<>>], fail |-> "none"]}
QuitCreate == \E p \in ProbedPanes, d \in CreateDirs, o \in CaptureShell, in \in QuitResolves :
                  PtyCreate(p, d, FALSE, FALSE, o, in) /\ UNCHANGED rendVars
QuitInput  == \E p \in ProbedPanes, data \in InputData, in \in QuitResolves :
                  TerminalInput(p, data, in)
QuitOutputFlush == \E ins \in [1..Len(outputBuffers) -> QuitResolves] : outputTimerFires(ins)
BeforeQuit ==
    \E pr \in [1..Len(ptys) -> {[ok |-> FALSE, out |-> <<>>]}], missing \in {{}, {3}},
       storeThrows \in BOOLEAN, ins \in [1..Len(outputBuffers) -> QuitResolves],
       n \in 0..Len(ptys) :
        beforeQuit(pr, missing, storeThrows, ins, [i \in 1..MaxUuids |-> "none"], n)
NextQuit == /\ lastOp.op # "before-quit"
            /\ (QuitCreate \/ QuitInput \/ Output \/ QuitOutputFlush \/ BeforeQuit)
SpecQuit == InitHist /\ [][NextQuit]_vars

\* sessions are killed and exit while their output is captured and flushed
KillViaIpc == \E p \in ProbedPanes : PtyKill(p)
NextKill == QuitCreate \/ KillViaIpc \/ Terminate \/ ExitEvent \/ Output
               \/ QuitOutputFlush \/ TimerFlush
SpecKill == InitHist /\ [][NextKill]_vars

\* the history path fails: the project is u1 with two stored days and an index;
\* marker, index and day-file operations fail while input and output flow
StoredDays == {-2, -1}
StoredText == [day \in StoredDays |-> IF day = -1 THEN <<"a", "F", "o">>
                                      ELSE <<"a", "F", "o", "\n", "x">>]
StoredIndex == [corrupt |-> FALSE, projectPath |-> Dir_p, projectId |-> Uuid(1),
                sessions |-> <<[date |-> -2, size |-> 5, exchangeCount |-> 0],
                               [date |-> -1, size |-> 3, exchangeCount |-> 0]>>]
InitFail ==
    /\ platform = "linux" /\ ptys = <<>>
    /\ proc = [s \in SessIds |-> "none"] /\ procPane = [s \in SessIds |-> 0]
    /\ cachedPath = NullPath /\ shellRan = FALSE
    /\ lastOp = [op |-> "init"]
    /\ writeBuffers = <<>> /\ uuids = 1 /\ now = 0 /\ flushTimer = TRUE
    /\ paneProjectIds = <<>> /\ outputBuffers = <<>>
    /\ historyFlushTimer = TRUE /\ workspace = createDefaultWorkspace
    /\ RendererInit
    /\ fs = [Corpus(StoredDays, StoredText) EXCEPT
                !.markers = Put(@, Dir_p, Uuid(1)),
                !.index = Put(@, Uuid(1), StoredIndex)]
FailResolves == {NoResolve} \cup
    [probe : {[ok |-> FALSE, out |-> <<>>]}, fail : {"none", "read", "write"}]
FailCreate == \E p \in ProbedPanes, in \in FailResolves :
                  PtyCreate(p, Dir_p, FALSE, FALSE,
                            IF NeedsDiscovery(cachedPath) THEN [ok |-> TRUE, out |-> LoginPath]
                            ELSE NotRun, in) /\ UNCHANGED rendVars
FailInput  == \E p \in ProbedPanes, in \in FailResolves :
                  TerminalInput(p, <<"l", "s", "\r">>, in)
FailOutput == \E s \in SessIds : onOutput(s, <<"o", "k", "\r", "\n">>)
FailOutputFlush == \E ins \in [1..Len(outputBuffers) -> FailResolves] : outputTimerFires(ins)
FailSearch == \E id \in StoreIds, query \in Queries : search(id, query, NoLimit) /\ NoPty
FailGetDay == \E id \in StoreIds, date \in {-1, 0} : HistoryGetDay(id, date) /\ NoPty
NextFail == FailCreate \/ FailInput \/ FailOutput \/ FailOutputFlush \/ TimerFlush
               \/ GetSessions \/ FailGetDay \/ FailSearch \/ CorruptIndex
SpecFail == InitFail /\ [][NextFail]_vars

\* stripAnsi applied to every text of up to MaxText characters over ESC, the
\* line terminators, BEL, the introducers of CSI, OSC and charset sequences,
\* the backslash of ST, a digit and a letter
StripAlphabet == {ESC, "\r", "\n", BEL, "[", "]", "(", "\\", "0", "a"}
StripTexts == UNION {[1..n -> StripAlphabet] : n \in 0..MaxText}
InitStrip ==
    /\ platform = "linux" /\ ptys = <<>>
    /\ proc = [s \in SessIds |-> "none"] /\ procPane = [s \in SessIds |-> 0]
    /\ cachedPath = NullPath /\ shellRan = FALSE
    /\ fs = EmptyDisk /\ writeBuffers = <<>> /\ uuids = 0 /\ now = 0 /\ flushTimer = TRUE
    /\ paneProjectIds = <<>> /\ outputBuffers = <<>>
    /\ historyFlushTimer = TRUE /\ workspace = createDefaultWorkspace
    /\ RendererInit
    /\ \E str \in StripTexts : lastOp = [op |-> "text", str |-> str]
StripAnsi ==
    /\ lastOp.op = "text"
    /\ lastOp' = [op |-> "stripAnsi", str |-> lastOp.str, ret |-> stripAnsi(lastOp.str)]
    /\ UNCHANGED <<ptyVars, histVars, captVars, rendVars>>
NextStrip == StripAnsi
SpecStrip == InitStrip /\ [][NextStrip]_vars

\* what the terminal sends: Enter, an arrow key, one letter and Enter, an arrow
\* key and Enter, a command line, unterminated text, two pasted lines
InputKeys == {<<"\r">>, <<ESC, "[", "A">>, <<"l", "\r">>, <<ESC, "[", "A", "\r">>,
              <<"l", "s", "\r">>, <<"l", "s">>, <<"l", "\n", "s", "\r", "\n">>}
KeyInput == \E p \in ProbedPanes, data \in InputKeys, in \in QuitResolves :
                TerminalInput(p, data, in)
KeyCreate == \E p \in ProbedPanes, in \in {NoResolve} \cup
                   [probe : {[ok |-> FALSE, out |-> <<>>]}, fail : {"none", "write"}] :
                 PtyCreate(p, Dir_p, FALSE, FALSE,
                           IF NeedsDiscovery(cachedPath) THEN [ok |-> TRUE, out |-> LoginPath]
                           ELSE NotRun, in) /\ UNCHANGED rendVars
NextInput == KeyCreate \/ KeyInput \/ FailOutput \/ QuitOutputFlush
SpecInput == InitHist /\ [][NextInput]_vars

\* the event loop runs one handler at a time: while getCwd waits in execSync,
\* no event is dispatched
LoopCreate == ~Blocked /\ \E p \in Panes : createPty(p, NoDir) /\ NoHistory
LoopWrite(p) == ~Blocked /\ write(p, <<"l", "s", "\n">>) /\ NoHistory
LoopData(s)  == ~Blocked /\ onOutput(s, <<"o", "k", "\r", "\n">>)
LoopExit(s)  == ~Blocked /\ onExitHandler(s) /\ NoHistory
LoopTerminate == ~Blocked /\ Terminate
LoopProbe   == ~Blocked /\ \E p \in ProbedPanes : getCwdBegins(p) /\ NoHistory
ProbeEnds   == getCwdReturns /\ NoHistory
NextLoop == LoopCreate \/ (\E p \in Panes : LoopWrite(p)) \/ (\E s \in SessIds : LoopData(s))
               \/ (\E s \in SessIds : LoopExit(s)) \/ LoopTerminate \/ LoopProbe
               \/ ProbeEnds
SpecLoop == InitHist /\ [][NextLoop]_vars


\* ------------------------------------------------- renderer: TerminalPane
\* initPty(): a pane that is not in initializedPtys enters it and asks once for
\* a session in its workingDirectory; the result decides only whether the
\* terminal is resized
initPty(p, spawnThrows, in) ==
    /\ p \notin initializedPtys
    /\ initializedPtys' = initializedPtys \cup {p}
    /\ PtyCreate(p, storeCwd[p], FALSE, spawnThrows, ShellOutcome, in)
    /\ UNCHANGED <<exitHandlers, storeCwd>>

\* the exit callback of index.ts: PTY_EXIT is sent to the window
SendPtyExit(s) ==
    /\ onExitHandler(s)
    /\ exitHandlers' = Append(exitHandlers,
                              [pane |-> procPane[s], pc |-> "getCwd", dir |-> NoDir])
    /\ UNCHANGED <<histVars, captVars, initializedPtys, storeCwd>>

\* onPtyExit callback up to its first await: the store is read, getCwd is
\* asked of the main process, and a directory that is returned is stored.  The
\* pane's configuration is later taken from the store as it was read here.
onPtyExitBegins(i) ==
    /\ i \in 1..Len(exitHandlers)
    /\ exitHandlers[i].pc = "getCwd"
    /\ exitHandlers[i].pane \in initializedPtys
    /\ getCwd(exitHandlers[i].pane)
    /\ storeCwd' = IF lastOp'.ret.isNull \/ lastOp'.ret.val = <<>> THEN storeCwd
                   ELSE [storeCwd EXCEPT ![exitHandlers[i].pane] = lastOp'.ret.val]
    /\ exitHandlers' = [exitHandlers EXCEPT
                           ![i] = [pane |-> @.pane, pc |-> "createPty",
                                   dir |-> storeCwd[@.pane]]]
    /\ UNCHANGED <<histVars, captVars, initializedPtys>>

\* the rest of the callback: the pane leaves and re-enters initializedPtys and
\* createPty is called once; its result is not looked at
onPtyExitRespawns(i, spawnThrows, in) ==
    /\ i \in 1..Len(exitHandlers)
    /\ exitHandlers[i].pc = "createPty"
    /\ initializedPtys' = (initializedPtys \ {exitHandlers[i].pane}) \cup {exitHandlers[i].pane}
    /\ PtyCreate(exitHandlers[i].pane, exitHandlers[i].dir, FALSE, spawnThrows,
                 ShellOutcome, in)
    /\ exitHandlers' = [j \in 1..(Len(exitHandlers) - 1) |->
                            IF j < i THEN exitHandlers[j] ELSE exitHandlers[j + 1]]
    /\ UNCHANGED storeCwd

\* updateCwdAndGitStatus, every five seconds: a directory that differs from
\* the stored one is stored
updateCwd(p) ==
    /\ p \in initializedPtys
    /\ getCwd(p)
    /\ storeCwd' = IF lastOp'.ret.isNull \/ lastOp'.ret.val = <<>>
                      \/ lastOp'.ret.val = storeCwd[p]
                   THEN storeCwd ELSE [storeCwd EXCEPT ![p] = lastOp'.ret.val]
    /\ UNCHANGED <<histVars, captVars, initializedPtys, exitHandlers>>

\* panes are mounted, their sessions terminate while a further session can be
\* spawned, every exit is reported and handled, spawns can fail.  The event
\* loops of the main process and of the renderer run every callback that is
\* due: weak fairness of the exit event and of both steps of the renderer's
\* callback.
Mount == \E p \in Panes, spawnThrows \in BOOLEAN, in \in QuitResolves :
            initPty(p, spawnThrows, in)
SessionEnds == Cardinality(Spawned) < MaxSessions /\ Terminate
PtyExitSent(s) == SendPtyExit(s)
ExitHandled(i) == onPtyExitBegins(i)
Respawned(i) == \E spawnThrows \in BOOLEAN, in \in QuitResolves :
                    onPtyExitRespawns(i, spawnThrows, in)
CwdPoll == \E p \in ProbedPanes : updateCwd(p)
NextRespawn == Mount \/ SessionEnds \/ (\E s \in SessIds : PtyExitSent(s))
                  \/ (\E i \in 1..MaxSessions : ExitHandled(i))
                  \/ (\E i \in 1..MaxSessions : Respawned(i)) \/ CwdPoll
SpecRespawn ==
    /\ InitHist /\ [][NextRespawn]_vars
    /\ \A s \in SessIds : WF_vars(PtyExitSent(s))
    /\ \A i \in 1..MaxSessions : WF_vars(ExitHandled(i)) /\ WF_vars(Respawned(i))


\* ======================================================================
\* Claims about the supervisor (Spec)
\* ======================================================================
Running(p) == {s \in SessIds : procPane[s] = p /\ proc[s] = "running"}

\* C1: in every reachable state each paneId has at most one live child process.
C1_AtMostOneLiveChild == \A p \in Panes : Cardinality(Running(p)) <= 1

\* C2: after two consecutive successful createPty(p) calls the registry holds
\* the session of the second call, and keeps holding it (also once the first
\* session's exit event is delivered) until that session is killed or exits.
C2_SecondSessionStays ==
    \A s \in SessIds :
        (/\ proc[s] = "running"
         /\ \E s1 \in SessIds : s1 < s /\ proc[s1] # "none" /\ procPane[s1] = procPane[s])
        => (Has(ptys, procPane[s]) /\ Get(ptys, procPane[s]).pty = s)

\* C3: after killAll() returns the registry is empty and no child spawned by
\* the supervisor is still alive.
C3_KillAllLeavesNothing ==
    (lastOp.op = "killAll" /\ ~lastOp.threw)
        => (ptys = <<>> /\ \A s \in SessIds : proc[s] # "running")

\* C4: createPty never throws to its caller, and it returns true only when a
\* new session has been registered for paneId.
C4_CreateNeverThrows ==
    lastOp.op = "createPty"
        => /\ ~lastOp.threw
           /\ lastOp.ret => (Has(ptys, lastOp.pane)
                             /\ Get(ptys, lastOp.pane).pty = lastOp.sess)

\* C10: across any sequence of createPty calls the login-shell PATH command
\* is executed at most once: no createPty executes it once it has been
\* executed.
C10_DiscoveryAtMostOnce ==
    [][(lastOp'.op = "createPty" /\ lastOp'.ranShell) => ~shellRan]_vars


\* ======================================================================
\* Claims about directory tracking (SpecCwd)
\* ======================================================================
Tracked(m, p) == Get(m, p).cwd

\* the step is a call of getCwd(p) / write(p, ..) on a pane with a session
IsGetCwd(p) == lastOp'.op = "getCwd" /\ lastOp'.pane = p
IsWrite(p)  == lastOp'.op = "write"  /\ lastOp'.pane = p

\* the probe produced a directory
ProbeGaveDir(o) == o.ok /\ StartsWith(o.out, "/")
\* the probe command failed or timed out, printed nothing, or was not run
ProbeFailed(o) == ~o.ok \/ o.out = <<>>

\* C5: getCwd returns null when the pane has no session; when the probe
\* fails, times out or the platform has no probe it returns the last tracked
\* value and leaves it unchanged; the tracked value starts as the directory
\* passed to createPty, or the home directory when none was passed.
C5_Step ==
    /\ \A p \in Panes :
         IsGetCwd(p) =>
            IF ~Has(ptys, p)
            THEN lastOp'.ret = Null /\ ptys' = ptys
            ELSE ProbeFailed(lastOp'.probe) =>
                    (lastOp'.ret = Str(Tracked(ptys, p)) /\ ptys' = ptys)
    /\ (lastOp'.op = "createPty" /\ lastOp'.ret) =>
           Tracked(ptys', lastOp'.pane) =
               (IF lastOp'.dir = NoDir THEN Home ELSE lastOp'.dir)
C5_GetCwdFallsBack == [][C5_Step]_vars

C5_Witness ==
    /\ lastOp.op = "getCwd" /\ platform = "linux" /\ ProbeFailed(lastOp.probe)
    /\ lastOp.ret = Str(<<"/", "h", "/", "x">>)

\* C6: a getCwd whose probe succeeds overwrites the tracked directory with
\* the probed value and returns it, and while a session lives its tracked
\* directory is changed by nothing but such a probe and the writes to its
\* pane (last-probe-wins).
C6_Step ==
    \A p \in Panes :
        /\ (IsGetCwd(p) /\ Has(ptys, p) /\ ProbeGaveDir(lastOp'.probe)) =>
               (/\ Tracked(ptys', p) = lastOp'.probe.out
                /\ lastOp'.ret = Str(lastOp'.probe.out))
        /\ (/\ Has(ptys, p) /\ Has(ptys', p)
            /\ Get(ptys', p).pty = Get(ptys, p).pty
            /\ Tracked(ptys', p) # Tracked(ptys, p)) =>
               \/ IsWrite(p)
               \/ IsGetCwd(p) /\ lastOp'.probe.ok
                              /\ Tracked(ptys', p) = lastOp'.probe.out
C6_LastProbeWins == [][C6_Step]_vars

\* the probe said /t and "cd s" was written afterwards
C6_Witness ==
    /\ lastOp.op = "write" /\ Has(ptys, lastOp.pane)
    /\ Tracked(ptys, lastOp.pane) = <<"/", "t", "/", "s">>

\* C7: after write(p, "cd <path>" + line terminator) a getCwd(p) that gets
\* no probe result returns the heuristic value: <path> when absolute, home
\* for "~", home joined with the rest for "~/x", the previous directory
\* joined with <path> when relative.
PlainName == <<"s">>
ClaimPaths == {PlainName, <<"/", "a">>, <<"~">>, <<"~", "/", "x">>}
LineTerminators == {<<"\n">>, <<"\r">>, <<"\r", "\n">>}
HeuristicValue(d, path) ==
    IF path[1] = "/" THEN path
    ELSE IF path = <<"~">> THEN Home
    ELSE IF path[1] = "~" THEN Home \o <<"/">> \o SubSeq(path, 3, Len(path))
    ELSE IF d = <<"/">> THEN d \o path
    ELSE d \o <<"/">> \o path
C7_Step ==
    \A p \in Panes :
        /\ (IsWrite(p) /\ lastOp'.live) =>
               \A path \in ClaimPaths, t \in LineTerminators :
                   lastOp'.data = CdLine(path, t) =>
                       Tracked(ptys', p) = HeuristicValue(Tracked(ptys, p), path)
        /\ (/\ lastOp.op = "write" /\ lastOp.pane = p /\ lastOp.live
            /\ IsGetCwd(p) /\ ProbeFailed(lastOp'.probe)) =>
               lastOp'.ret = Str(Tracked(ptys, p))
C7_CdHeuristic == [][C7_Step]_vars

\* created at /p, "cd s" written, getCwd without probe result: /p/s
C7_Witness ==
    /\ lastOp.op = "getCwd" /\ ProbeFailed(lastOp.probe)
    /\ lastOp.ret = Str(Dir_p \o <<"/">> \o PlainName)

\* ======================================================================
\* Claims about the git status probe (SpecGit)
\* ======================================================================
NotARepo == [isGitRepo |-> FALSE]

\* C8: getGitStatus returns null when the pane has no session and exactly
\* {isGitRepo: false} whenever the work-tree check fails, on every call.
C8_NotARepo ==
    lastOp.op = "getGitStatus" =>
        IF ~Has(ptys, lastOp.pane) THEN lastOp.ret = Null
        ELSE lastOp.check = "throw" => lastOp.ret = NotARepo

C8_Witness ==
    /\ lastOp.op = "getGitStatus" /\ Has(ptys, lastOp.pane)
    /\ lastOp.check = "throw" /\ lastOp.ret = NotARepo

\* C9: when the work-tree check succeeds the result has isGitRepo = true
\* whatever later step fails: a failed branch lookup gives "HEAD", a failed
\* upstream lookup 0/0, a failed status lookup 0, and each field depends on
\* the outcome of its own step only.
C9_Degrades ==
    (lastOp.op = "getGitStatus" /\ Has(ptys, lastOp.pane) /\ lastOp.check # "throw") =>
        /\ lastOp.ret.isGitRepo
        /\ lastOp.ret.branch = (IF lastOp.branch.ok THEN lastOp.branch.out ELSE "HEAD")
        /\ ~lastOp.tracking.ok => (lastOp.ret.ahead = 0 /\ lastOp.ret.behind = 0)
        /\ lastOp.tracking = [ok |-> TRUE, toks |-> <<Num(2), Num(1)>>] =>
               (lastOp.ret.ahead = 2 /\ lastOp.ret.behind = 1)
        /\ lastOp.ret.dirty = (IF lastOp.status.ok THEN 2 ELSE 0)

C9_Witness ==
    /\ lastOp.op = "getGitStatus" /\ lastOp.check = "ok"
    /\ ~lastOp.branch.ok /\ lastOp.tracking.ok /\ ~lastOp.status.ok
    /\ lastOp.ret = [isGitRepo |-> TRUE, branch |-> "HEAD", ahead |-> 2,
                     behind |-> 1, dirty |-> 0]


\* ======================================================================
\* Claims about the exit callback (SpecLive)
\* ======================================================================
\* the handler of session s has run: this.onExit(paneId, exitCode) was called
Delivered(s) == proc[s] = "exited"
\* session s terminates: it exited by itself or was signalled by kill()
Terminated(s) == proc[s] \in {"exiting", "exited"}

\* C11: for every session that terminates (own exit, killPty/killAll, replaced
\* in createPty) the exit callback is delivered exactly once: the callback of a
\* session is never delivered a second time, and a terminated session's
\* callback is eventually delivered.
C11_ExitDeliveredOnce ==
    /\ [][\A s \in SessIds :
            (lastOp'.op = "onExit" /\ lastOp'.sess = s /\ proc'[s] # proc[s])
                => (Terminated(s) /\ ~Delivered(s) /\ Delivered(s)')]_vars
    /\ [][\A s \in SessIds : Delivered(s) => (proc'[s] = proc[s])]_vars
    /\ \A s \in SessIds : Terminated(s) ~> Delivered(s)

\* a session that was replaced by createPty has had its exit delivered while
\* its successor runs
C11_Witness ==
    /\ lastOp.op = "onExit" /\ lastOp.sess = 1
    /\ Delivered(1) /\ proc[2] = "running" /\ procPane[2] = procPane[1]


\* ======================================================================
\* Claims about project identity (SpecResolve)
\* ======================================================================
IsResolve == lastOp'.op = "getOrCreateProjectId"
Prefixed(id) == id # <<>> /\ id[1] = TempPrefix
\* the marker of the path can be read and holds a syntactically valid UUID
HoldsUuid(d, path) == Exists(d.markers, path) /\ isValidUuid(Trim(d.markers[path]))

\* C15: once a UUID is in the marker of a path, every call for that path that
\* can read the marker returns that UUID and leaves the marker (the whole
\* disk) as it is; a call writes a marker only when the marker is missing or
\* does not hold a valid UUID, and then the UUID written is a fresh one.
C15_Step ==
    IsResolve =>
        LET path == lastOp'.path IN
        /\ (HoldsUuid(fs, path) /\ lastOp'.fail # "read")
              => (lastOp'.ret = Trim(fs.markers[path]) /\ fs' = fs /\ uuids' = uuids)
        /\ fs'.markers # fs.markers
              => /\ ~HoldsUuid(fs, path)
                 /\ fs'.markers = Put(fs.markers, path, Uuid(uuids + 1))
C15_StableIdentity == [][C15_Step]_vars

\* a call returns the UUID of a marker to which a newline had been added
C15_Witness ==
    /\ lastOp.op = "getOrCreateProjectId" /\ lastOp.fail = "none"
    /\ Exists(fs.markers, lastOp.path)
    /\ fs.markers[lastOp.path] = Uuid(1) \o <<"\n">>
    /\ lastOp.ret = Uuid(1)

\* C16: getOrCreateProjectId always returns an id; when reading the marker,
\* creating its directory or writing it fails the id carries the ephemeral
\* prefix; an id without the prefix is what the marker holds after the call.
C16_Step ==
    IsResolve =>
        /\ lastOp'.ret # <<>>
        /\ lastOp'.fail \in {"read", "mkdir", "write"} => Prefixed(lastOp'.ret)
        /\ ~Prefixed(lastOp'.ret)
              => /\ Exists(fs'.markers, lastOp'.path)
                 /\ Trim(fs'.markers[lastOp'.path]) = lastOp'.ret
C16_EphemeralOnFailure == [][C16_Step]_vars

\* writing the marker failed: a prefixed id came back and no marker exists
C16_Witness ==
    /\ lastOp.op = "getOrCreateProjectId" /\ lastOp.fail = "write"
    /\ Prefixed(lastOp.ret)
    /\ ~Exists(fs.markers, lastOp.path)


\* ======================================================================
\* Claims about the write queues (SpecHist)
\* ======================================================================
\* an id that must never reach the disk: empty or ephemeral-prefixed
Unpersisted(id) == id = <<>> \/ Prefixed(id)

\* C14: appendExchange with an empty or ephemeral-prefixed id changes neither
\* the write queues nor the disk; no write queue is keyed by such an id and no
\* directory, day file or index of the history store belongs to one.
C14_NoTrace ==
    /\ \A i \in 1..Len(writeBuffers) : ~Unpersisted(writeBuffers[i].id)
    /\ \A id \in fs.dirs \cup DOMAIN fs.index : ~Unpersisted(id)
    /\ \A key \in DOMAIN fs.days : ~Unpersisted(key[1])
C14_EphemeralNeverWritten ==
    /\ []C14_NoTrace
    /\ [][(lastOp'.op = "appendExchange" /\ Unpersisted(lastOp'.id))
             => (writeBuffers' = writeBuffers /\ fs' = fs)]_vars

\* an exchange was just submitted under a prefixed id to a store that has
\* written other records before: nothing is queued
C14_Witness ==
    /\ lastOp.op = "appendExchange" /\ Prefixed(lastOp.id)
    /\ writeBuffers = <<>>
    /\ DOMAIN fs.days # {}

\* C17: after a flush nothing is buffered, and a flush that finds nothing
\* buffered leaves the disk (day files, their sizes, the index) unchanged.
C17_FlushIdempotent ==
    /\ [](lastOp.op = "flush" => writeBuffers = <<>>)
    /\ [][(lastOp'.op = "flush" /\ writeBuffers = <<>>)
             => (fs' = fs /\ writeBuffers' = <<>>)]_vars

\* a flush with nothing buffered ran more than 30 minutes after a flush wrote
C17_Witness ==
    /\ lastOp.op = "flush" /\ lastOp.outs = <<>>
    /\ \E key \in DOMAIN fs.days : now - fs.days[key].mtime > ThirtyMinutes

\* how often the session header occurs in a text
Headers(text) == Cardinality({i \in 1..Len(text) : text[i] = SessionMark})

\* C18: a flush that writes queued records to a day file adds exactly one
\* session header, before the records, if and only if the day file does not
\* exist or was last modified more than 30 minutes ago; otherwise it adds the
\* records alone.
C18_Step ==
    lastOp'.op = "flush" =>
        \A i \in 1..Len(writeBuffers) :
            lastOp'.outs[i] \in {"none", "index", "vanish"} =>
                LET key   == <<writeBuffers[i].id, DateOf(now)>>
                    there == Exists(fs.days, key) /\ lastOp'.outs[i] # "vanish"
                    old   == IF there THEN fs.days[key].content ELSE <<>>
                    new   == fs'.days[key].content
                    added == SubSeq(new, Len(old) + 1, Len(new))
                    recs  == Concat(writeBuffers[i].buffer)
                    stale == ~there \/ now - fs.days[key].mtime > ThirtyMinutes
                IN  /\ SubSeq(new, 1, Len(old)) = old
                    /\ Headers(added) = IF stale THEN 1 ELSE 0
                    /\ SubSeq(added, Len(added) - Len(recs) + 1, Len(added)) = recs
                    /\ stale => added[4] = SessionMark
                    /\ ~stale => added = recs
C18_SessionHeader == [][C18_Step]_vars

\* a day file that was written twice, the second time more than 30 minutes
\* after the first: it holds two headers and two records
C18_Witness ==
    /\ lastOp.op = "flush"
    /\ \E key \in DOMAIN fs.days :
          /\ Headers(fs.days[key].content) = 2
          /\ CountRecords(fs.days[key].content) = 2


\* ======================================================================
\* Claims about search (SpecSearch)
\* ======================================================================
IsSearch == lastOp.op = "search"
\* the limit in force: the one passed, or the default
Budget(limit) == IF limit.given THEN limit.n ELSE DefaultLimit
\* all context blocks of a result
TotalBlocks(ret) == SumOver([g \in 1..Len(ret) |-> Len(ret[g].matches)], 1..Len(ret))
\* the lines of the searched project that hold the query, in any case
MatchingLines(d, id, query) ==
    SumOver([key \in {k \in DOMAIN d.days : k[1] = id} |->
                LET lines == SplitLines(d.days[key].content) IN
                Cardinality({i \in 1..Len(lines) :
                    includes(toLowerCase(lines[i]), toLowerCase(query))})],
            {k \in DOMAIN d.days : k[1] = id})

\* C19: search returns at most limit context blocks in total over all day
\* files (50 when no limit is passed), every returned group holds at least one
\* block, and the groups are ordered by file date, newest first.
C19_LimitAndOrder ==
    IsSearch =>
        /\ TotalBlocks(lastOp.ret) <= Budget(lastOp.limit)
        /\ \A g \in 1..Len(lastOp.ret) : Len(lastOp.ret[g].matches) >= 1
        /\ \A g, h \in 1..Len(lastOp.ret) :
              g < h => lastOp.ret[g].date > lastOp.ret[h].date

\* limit 3 over a corpus of two day files with five matching lines: three
\* blocks, from both files
C19_Witness ==
    /\ IsSearch /\ lastOp.limit = Limit(3)
    /\ MatchingLines(fs, lastOp.id, lastOp.query) >= 5
    /\ TotalBlocks(lastOp.ret) = 3 /\ Len(lastOp.ret) = 2

\* C20: the context blocks of one search result do not overlap: no line of a
\* day file lies in two blocks of the result.
C20_NonOverlapping ==
    IsSearch =>
        \A g \in 1..Len(lastOp.ret) :
            LET blocks == lastOp.ret[g].blocks IN
            \A a, b \in 1..Len(blocks) :
                a < b => blocks[a].end <= blocks[b].start


\* ======================================================================
\* Claims about the capture pipeline (SpecCapture)
\* ======================================================================
\* the exchanges that the latest handler queued: submitted under an id that
\* appendExchange accepts
Recorded(op) ==
    IF op.op \in {"TERMINAL_INPUT", "flushOutputHistory"}
    THEN SelectSeq(op.submitted, LAMBDA e : ~Unpersisted(e.id))
    ELSE <<>>
\* the id that the marker in directory dir holds
IdOf(d, dir, id) == HoldsUuid(d, dir) /\ Trim(d.markers[dir]) = id

\* C12: every exchange recorded for a pane with a session is recorded under
\* the project id of the pane's working directory at that moment (for input:
\* the directory before or after the written line took effect).
C12_Step ==
    \A i \in 1..Len(Recorded(lastOp')) :
        LET e == Recorded(lastOp')[i] IN
        (Has(ptys, e.pane) /\ Has(ptys', e.pane)) =>
            \/ IdOf(fs', Tracked(ptys, e.pane), e.id)
            \/ IdOf(fs', Tracked(ptys', e.pane), e.id)
C12_RecordedUnderCurrentProject == [][C12_Step]_vars

\* the directories inside a git work tree: the repositories /p and /t
GitRoots == {Dir_p, <<"/", "t">>}
InGitRepo(dir) ==
    \E r \in GitRoots :
        /\ Len(dir) >= Len(r) /\ SubSeq(dir, 1, Len(r)) = r
        /\ (Len(dir) = Len(r) \/ dir[Len(r) + 1] = "/")

\* C13: conversations are recorded for git repositories only: no project
\* marker exists outside a git repository, and no exchange is queued for a
\* pane whose working directory is outside every git repository.
C13_GitRepositoriesOnly ==
    /\ \A dir \in DOMAIN fs.markers : InGitRepo(dir)
    /\ \A i \in 1..Len(Recorded(lastOp)) :
          Has(ptys, Recorded(lastOp)[i].pane)
              => InGitRepo(Tracked(ptys, Recorded(lastOp)[i].pane))

\* ======================================================================
\* Claims about reading and deleting stored days (SpecStore)
\* ======================================================================
IsDelete == lastOp.op = "HISTORY_DELETE_DAY"

\* C21: deleteDay(projectId, date) returns whether the day file existed and
\* removes the file and the index entry: afterwards getSessions(projectId) has
\* no entry for the date, getDayContent(projectId, date) is empty, and a
\* deleteDay of the same date that follows directly returns false.
C21_Step ==
    IsDelete' =>
        LET id == lastOp'.id
            date == lastOp'.date
            ss == getSessions(fs', id, FALSE)
        IN  /\ lastOp'.ret = Exists(fs.days, <<id, date>>)
            /\ \A i \in 1..Len(ss) : ss[i].date # date
            /\ getDayContent(fs', id, date, FALSE) = <<>>
            /\ (IsDelete /\ lastOp.id = id /\ lastOp.date = date) => lastOp'.ret = FALSE
C21_DeleteDay == [][C21_Step]_vars

\* a day with a transcript and an index entry was deleted: the reply is true
C21_Witness ==
    /\ IsDelete /\ lastOp.ret
    /\ Exists(fs.index, lastOp.id) /\ ~fs.index[lastOp.id].corrupt
    /\ fs.index[lastOp.id].sessions = <<>>

\* ======================================================================
\* Claims about quitting (SpecQuit)
\* ======================================================================
IsQuit == lastOp.op = "before-quit"
\* the day file of project id for the day holds the text
Persisted(d, id, date, text) ==
    Exists(d.days, <<id, date>>) /\ includes(d.days[<<id, date>>].content, text)

\* C22: when the before-quit handler has run, both flush timers are cancelled,
\* every output buffer and every write queue is empty, and everything that was
\* queued, or buffered for a pane with a persistent project id, before the
\* handler began is in the day file of its project.
C22_Step ==
    IsQuit' =>
        /\ ~historyFlushTimer' /\ ~flushTimer'
        /\ outputBuffers' = <<>> /\ writeBuffers' = <<>>
        /\ \A i \in 1..Len(writeBuffers) :
              Persisted(fs', writeBuffers[i].id, DateOf(now), Concat(writeBuffers[i].buffer))
        /\ \A i \in 1..Len(outputBuffers) :
              LET p == outputBuffers[i].paneId
                  cleaned == cleanTerminalOutput(stripAnsi(outputBuffers[i].buffer))
              IN  (Exists(paneProjectIds, p) /\ ~IsEphemeral(paneProjectIds[p])
                      /\ Trim(outputBuffers[i].buffer) # <<>> /\ cleaned # <<>>)
                  => Persisted(fs', paneProjectIds[p], DateOf(now),
                               formatExchange(now, p, "output", cleaned))
C22_GracefulShutdownDrains == [][C22_Step]_vars

\* ======================================================================
\* Claims about killed sessions (SpecKill)
\* ======================================================================
IsOutputFlush == lastOp.op = "flushOutputHistory"
IsHistoryFlush == lastOp.op = "flush"
\* the queue of project id holds the record
InQueue(w, id, entry) ==
    \E i \in 1..Len(w) : w[i].id = id /\ \E j \in 1..Len(w[i].buffer) : w[i].buffer[j] = entry

\* C23: killPty(p) and the exit event of a session change no output buffer and
\* no write queue; the next output pass calls appendExchange for the text of a
\* pane that has no session any more, which queues it when the pane's project
\* id is persistent; the next history flush writes every queue whose write
\* does not fail to its day file.
C23_Step ==
    /\ lastOp'.op \in {"killPty", "onExit", "terminated"} =>
          /\ outputBuffers' = outputBuffers
          /\ writeBuffers' = writeBuffers
    /\ IsOutputFlush' =>
          \A i \in 1..Len(outputBuffers) :
              LET p == outputBuffers[i].paneId
                  cleaned == cleanTerminalOutput(stripAnsi(outputBuffers[i].buffer))
              IN  (~Has(ptys, p) /\ Trim(outputBuffers[i].buffer) # <<>> /\ cleaned # <<>>)
                  => /\ \E j \in 1..Len(lastOp'.submitted) : lastOp'.submitted[j].pane = p
                     /\ \A j \in 1..Len(lastOp'.submitted) :
                           (lastOp'.submitted[j].pane = p
                               /\ ~IsEphemeral(lastOp'.submitted[j].id))
                           => InQueue(writeBuffers', lastOp'.submitted[j].id,
                                      formatExchange(now, p, "output", cleaned))
    /\ IsHistoryFlush' =>
          \A i \in 1..Len(writeBuffers) :
              lastOp'.outs[i] \in {"none", "index"}
              => Persisted(fs', writeBuffers[i].id, DateOf(now),
                           Concat(writeBuffers[i].buffer))
C23_KillKeepsBufferedText == [][C23_Step]_vars

\* the output of a pane whose session is gone was queued by an output pass
C23_Witness ==
    /\ IsOutputFlush /\ lastOp.submitted # <<>>
    /\ ptys = <<>>
    /\ writeBuffers # <<>>

\* ======================================================================
\* Claims about a failing history path (SpecFail)
\* ======================================================================
IsInput == lastOp.op = "TERMINAL_INPUT"
\* pane I/O goes on and the reads degrade: the bytes of an input event for a
\* live pane reach the child unchanged, an output event is sent to the window,
\* a failing getSessions or getDayContent gives the empty value, a flush
\* leaves no queue behind
PaneIoUnaffected ==
    /\ (IsInput' /\ Has(ptys, lastOp'.pane)) => lastOp'.forwarded = <<lastOp'.data>>
    /\ lastOp'.op = "onOutput" => lastOp'.sent = <<lastOp'.pane, lastOp'.data>>
    /\ (lastOp'.op = "HISTORY_GET_SESSIONS"
           /\ (lastOp'.threw \/ fs.index[lastOp'.id].corrupt)) => lastOp'.ret = <<>>
    /\ (lastOp'.op = "HISTORY_GET_DAY" /\ lastOp'.threw) => lastOp'.ret = <<>>
    /\ IsHistoryFlush' => writeBuffers' = <<>>

C24_Step ==
    /\ PaneIoUnaffected
    /\ (IsSearch' /\ lastOp'.failAt > 0) =>
          LET failed == DayFiles(fs, lastOp'.id)[lastOp'.failAt] IN
          /\ \A g \in 1..Len(lastOp'.ret) : lastOp'.ret[g].date > failed
          /\ lastOp'.failAt = 1 => lastOp'.ret = <<>>
C25_ProbeDoesNotStall ==
    Blocked =>
        /\ \A q \in Panes \ {lastOp.pane} : Has(ptys, q) => ENABLED LoopWrite(q)
        /\ \A s \in SessIds :
              (procPane[s] # lastOp.pane /\ proc[s] = "exiting") => ENABLED LoopExit(s)
        /\ \A s \in SessIds :
              (procPane[s] # lastOp.pane /\ proc[s] = "running"
                  /\ BufferOf(outputBuffers, procPane[s]) = <<>>) => ENABLED LoopData(s)

\* ======================================================================
\* Claims about recorded input (SpecInput)
\* ======================================================================
\* the records of type input in the write queues
InputRecords(w) ==
    SumOver([i \in 1..Len(w) |->
                Cardinality({j \in 1..Len(w[i].buffer) : w[i].buffer[j][6] = "input"})],
            1..Len(w))

\* C26: an input event without line terminator, or whose stripped and trimmed
\* text has at most one character, produces no exchange; an input event for a
\* live pane with a terminator and longer text makes one appendExchange call at
\* once, which queues one input record when the pane's project id is
\* persistent; no other step produces an input record.
C26_Step ==
    /\ IsInput' =>
          LET data == lastOp'.data
              p == lastOp'.pane
              text == Trim(CollapseEol(stripAnsi(data)))
              sub == lastOp'.submitted
          IN  /\ ((\A i \in 1..Len(data) : data[i] \notin {"\r", "\n"}) \/ Len(text) <= 1)
                     => (sub = <<>> /\ writeBuffers' = writeBuffers)
              /\ ((\E i \in 1..Len(data) : data[i] \in {"\r", "\n"}) /\ Len(text) > 1
                     /\ Has(ptys, p))
                     => /\ Len(sub) = 1 /\ sub[1].pane = p
                        /\ ~IsEphemeral(sub[1].id)
                              => /\ InQueue(writeBuffers', sub[1].id,
                                            formatExchange(now, p, "input", text))
                                 /\ InputRecords(writeBuffers') = InputRecords(writeBuffers) + 1
    /\ ~IsInput' => InputRecords(writeBuffers') <= InputRecords(writeBuffers)
C26_InputRecordedAtWriteTime == [][C26_Step]_vars

\* two pasted lines were queued as one input record
C26_Witness ==
    /\ IsInput /\ lastOp.data = <<"l", "\n", "s", "\r", "\n">>
    /\ Len(lastOp.submitted) = 1
    /\ InputRecords(writeBuffers) = 1

\* ======================================================================
\* Claims about stripAnsi (SpecStrip)
\* ======================================================================
Occurrences(str, c) == Cardinality({i \in 1..Len(str) : str[i] = c})

\* C27: for every text, stripAnsi returns text without ESC and without
\* carriage return, in which every newline of the input is kept, and a text
\* that holds no ESC at all comes back unchanged but for its carriage returns.
C27_StripsAndPreserves ==
    lastOp.op = "stripAnsi" =>
        /\ Occurrences(lastOp.ret, ESC) = 0
        /\ Occurrences(lastOp.ret, "\r") = 0
        /\ Occurrences(lastOp.ret, "\n") = Occurrences(lastOp.str, "\n")
        /\ Occurrences(lastOp.str, ESC) = 0
              => lastOp.ret = SelectSeq(lastOp.str, LAMBDA c : c # "\r")

\* ---------------------------------------------------------------- C28
PaneEmpty(p) == p \in initializedPtys /\ ~Has(ptys, p)

\* C28: a pane is never left empty: whenever a mounted pane has no session,
\* because its session exited or because its spawn failed, a session for the
\* same pane id is eventually registered again.
C28_PanesNeverLeftEmpty ==
    \A p \in Panes : PaneEmpty(p) ~> Has(ptys, p)

\* ---------------------------------------------------------------- C29
\* the non-blank buffers of an output pass
Pending(ob) == {i \in 1..Len(ob) : Trim(ob[i].buffer) # <<>>}

\* C29: an output pass leaves no output buffer behind, whatever its
\* resolutions and submissions came to; it calls appendExchange only for panes
\* whose text was buffered when it began, and for a pane that has no project id
\* after the pass it makes no call and queues nothing.
C29_Step ==
    IsOutputFlush' =>
        /\ outputBuffers' = <<>>
        /\ \A j \in 1..Len(lastOp'.submitted) :
              \E i \in Pending(outputBuffers) :
                  outputBuffers[i].paneId = lastOp'.submitted[j].pane
        /\ \A i \in Pending(outputBuffers) :
              ~Exists(paneProjectIds', outputBuffers[i].paneId)
              => \A j \in 1..Len(lastOp'.submitted) :
                    lastOp'.submitted[j].pane # outputBuffers[i].paneId
Hit(lines, q, m) == includes(toLowerCase(lines[m + 1]), q)

\* every block of the last search result is the first line that holds the
\* query at or after the place where the scan went on, together with the two
\* lines before it and the `after` lines after it as far as the file has them;
\* the scan starts at line 0 and goes on `skip` lines past the end of a block
BlocksAre(after, skip) ==
    lastOp.op = "search" =>
        \A g \in 1..Len(lastOp.ret) :
            LET grp   == lastOp.ret[g]
                lines == SplitLines(fs.days[<<lastOp.id, grp.date>>].content)
                q     == toLowerCase(lastOp.query)
            IN  \A b \in 1..Len(grp.blocks) :
                    LET from == IF b = 1 THEN 0 ELSE grp.blocks[b - 1].end + skip IN
                    /\ \E m \in from..(Len(lines) - 1) :
                          /\ Hit(lines, q, m)
                          /\ \A k \in from..(m - 1) : ~Hit(lines, q, k)
                          /\ grp.blocks[b].start = Max(0, m - 2)
                          /\ grp.blocks[b].end = Min(Len(lines), m + after + 1)
                    /\ grp.matches[b] =
                          JoinLines(SliceLines(lines, grp.blocks[b].start, grp.blocks[b].end))

RecordsIn(content) ==
    Cardinality({i \in 1..(Len(content) - 2) :
                    content[i] = RecordMark /\ content[i + 2] = "] Terminal "})
EntriesFor(d, id, date) ==
    {i \in 1..Len(d.index[id].sessions) : d.index[id].sessions[i].date = date}

\* C31: after a flush that wrote a project's queue and its index, the index
\* holds exactly one entry for the day, and its exchangeCount is the number
\* of records in the day file.
C31_Step ==
    IsHistoryFlush' =>
        \A i \in 1..Len(writeBuffers) :
            (lastOp'.outs[i] = "none" /\ writeBuffers[i].buffer # <<>>) =>
                LET id   == writeBuffers[i].id
                    date == DateOf(now)
                IN  /\ Exists(fs'.index, id)
                    /\ Cardinality(EntriesFor(fs', id, date)) = 1
                    /\ \A e \in EntriesFor(fs', id, date) :
                          fs'.index[id].sessions[e].exchangeCount
                              = RecordsIn(fs'.days[<<id, date>>].content)
C31_ExchangeCount == [][C31_Step]_vars

\* ---------------------------------------------------------------- C32
ReturnedFalse == lastOp.op = "createPty" /\ ~lastOp.threw /\ ~lastOp.ret

\* C32: when createPty(p) returns false, the session that p had is killed and
\* the registry has no entry for p; the entries and the children of all other
\* panes are as before.
C32_Step ==
    ReturnedFalse' =>
        LET p == lastOp'.pane IN
        /\ ~Has(ptys', p)
        /\ Has(ptys, p) => proc'[Get(ptys, p).pty] # "running"
        /\ Delete(ptys', p) = Delete(ptys, p)
        /\ \A s \in SessIds : procPane[s] # p => proc'[s] = proc[s]
C32_NotAtomicOnFailure == [][C32_Step]_vars

\* a failed createPty took the pane's session away while another pane has one
C32_Witness ==
    /\ ReturnedFalse
    /\ ~Has(ptys, lastOp.pane)
    /\ \E s \in SessIds : procPane[s] = lastOp.pane /\ proc[s] = "exiting"
    /\ ptys # <<>>

\* ---------------------------------------------------------------- C33
\* the text of pane p that was received and is not yet part of an exchange
Unsubmitted(p) == cleanTerminalOutput(stripAnsi(BufferOf(outputBuffers, p)))

\* C33: when an input of a pane is recorded under a persistent id, the output
\* received from that pane before it is already part of an exchange: no text
\* of the pane waits in the output buffer for a pass that would record it
\* after the input.
C33_Step ==
    (/\ IsInput'
     /\ lastOp'.submitted # <<>>
     /\ \A j \in 1..Len(lastOp'.submitted) : ~IsEphemeral(lastOp'.submitted[j].id))
    => Unsubmitted(lastOp'.pane) = <<>>
C33_ChronologicalOrder == [][C33_Step]_vars

\* ---------------------------------------------------------------- C34
IsAppend == lastOp.op = "appendExchange"
\* the day file of queue i before the flush, and what the flush made of it
DayText(d, key) == IF Exists(d.days, key) THEN d.days[key].content ELSE <<>>
\* the flush appended the records of queue i once, in queue order, behind a
\* session header or none
WrittenOnce(i) ==
    LET key == <<writeBuffers[i].id, DateOf(now)>>
        old == IF lastOp'.outs[i] = "vanish" THEN <<>> ELSE DayText(fs, key)
    IN  /\ Exists(fs'.days, key)
        /\ \E hdr \in {<<>>, getSessionHeader(now)} :
              fs'.days[key].content = old \o hdr \o Concat(writeBuffers[i].buffer)
\* the flush left the day file of queue i as it was
NotWritten(i) ==
    LET key == <<writeBuffers[i].id, DateOf(now)>>
    IN  Exists(fs'.days, key) = Exists(fs.days, key) /\ DayText(fs', key) = DayText(fs, key)
\* appendExchange puts the record behind the records of its project, and a
\* flush empties the queues and writes nothing for a project without a queue
QueueDiscipline ==
    /\ (IsAppend' /\ ~IsEphemeral(lastOp'.id)) =>
          \E i \in 1..Len(writeBuffers') :
              /\ writeBuffers'[i].id = lastOp'.id
              /\ LET old == IF HasQueue(writeBuffers, lastOp'.id)
                            THEN writeBuffers[i].buffer ELSE <<>>
                 IN  /\ Len(writeBuffers'[i].buffer) = Len(old) + 1
                     /\ SubSeq(writeBuffers'[i].buffer, 1, Len(old)) = old
    /\ IsHistoryFlush' =>
          /\ writeBuffers' = <<>>
          /\ \A key \in DOMAIN fs'.days :
                (\A i \in 1..Len(writeBuffers) : writeBuffers[i].id # key[1])
                => (key \in DOMAIN fs.days /\ fs'.days[key] = fs.days[key])

\* C34 as stated: the next flush appends every queued record to its day file
\* exactly once and in call order, whatever happens to the disk.
C34_Original ==
    [][QueueDiscipline /\ (IsHistoryFlush' => \A i \in 1..Len(writeBuffers) : WrittenOnce(i))]_vars

\* C34: the next flush appends the records of every queue whose directory and
\* day file can be written exactly once and in call order; the records of a
\* queue whose write fails are dropped and no file is changed for it; the
\* other queues are written in the same flush, and no later flush writes a
\* record again.
C34_Step ==
    /\ QueueDiscipline
    /\ IsHistoryFlush' =>
          \A i \in 1..Len(writeBuffers) :
              IF lastOp'.outs[i] \in {"mkdir", "append"} THEN NotWritten(i)
              ELSE WrittenOnce(i)
C34_WrittenOnceInOrder == [][C34_Step]_vars

\* a flush in which the write of one project failed and another project's
\* queue was written
C34_Witness ==
    /\ IsHistoryFlush
    /\ \E i, j \in 1..Len(lastOp.outs) :
          lastOp.outs[i] = "append" /\ lastOp.outs[j] = "none" /\ i < j
    /\ \E key \in DOMAIN fs.days : key[1] = Uuid(2)

\* ---------------------------------------------------------------- C35
\* the time labels of the appendExchange calls made on a date, for the clock
\* values of a run
ClockValues == {t \in (-Tick)..MaxNow : t % Tick = 0}
LabelsOf(date) == {TimeSym(t) : t \in {c \in ClockValues : DateOf(c) = date}}
\* the positions of the record heads of a text
Heads(content) ==
    {i \in 1..(Len(content) - 2) :
        content[i] = RecordMark /\ content[i + 2] = "] Terminal "}

\* C35 as stated: every record of a day file was passed to appendExchange on
\* the date the file is named by.
C35_Original ==
    \A key \in DOMAIN fs.days :
        \A i \in Heads(fs.days[key].content) :
            fs.days[key].content[i + 1] \in LabelsOf(key[2])

\* C35: a flush writes every queue to the day file named by the date of the
\* flush, whenever appendExchange was called for its records, and changes no
\* day file of another date.
C35_Step ==
    IsHistoryFlush' =>
        /\ \A i \in 1..Len(writeBuffers) :
              lastOp'.outs[i] \notin {"mkdir", "append"} => WrittenOnce(i)
        /\ \A key \in DOMAIN fs'.days :
              key[2] # DateOf(now) => (key \in DOMAIN fs.days /\ fs'.days[key] = fs.days[key])
        /\ \A key \in DOMAIN fs.days : key[2] # DateOf(now) => key \in DOMAIN fs'.days
C35_FiledUnderFlushDate == [][C35_Step]_vars

\* a record that was queued before midnight is in the file of the next day
C35_Witness ==
    \E key \in DOMAIN fs.days :
        /\ key[2] = 0
        /\ \E i \in Heads(fs.days[key].content) :
              fs.days[key].content[i + 1] \in LabelsOf(-1)

\* ---------------------------------------------------------------- C36
\* C36: in an output pass during which no resolution fails, the text of every
\* pane that has a session is submitted under a persistent project id,
\* whatever went wrong in earlier resolutions for the pane.
C36_Step ==
    IsOutputFlush' =>
        \A i \in Pending(outputBuffers) :
            LET p == outputBuffers[i].paneId IN
            (Has(ptys, p) /\ cleanTerminalOutput(stripAnsi(outputBuffers[i].buffer)) # <<>>)
            => \E j \in 1..Len(lastOp'.submitted) :
                  /\ lastOp'.submitted[j].pane = p
                  /\ ~IsEphemeral(lastOp'.submitted[j].id)
C36_FailureAffectsOneCycle == [][C36_Step]_vars

\* ---------------------------------------------------------------- C37
\* C37: when a search read every day file and ended with fewer blocks than its
\* limit, every line of every day file that holds the query lies in a block
\* of the result.
C37_CompleteWithinBudget ==
    (/\ IsSearch
     /\ lastOp.failAt = 0
     /\ lastOp.id \in fs.dirs
     /\ TotalBlocks(lastOp.ret)
            < (IF lastOp.limit.given THEN lastOp.limit.n ELSE DefaultLimit))
    => \A k \in 1..Len(DayFiles(fs, lastOp.id)) :
          LET date  == DayFiles(fs, lastOp.id)[k]
              lines == SplitLines(fs.days[<<lastOp.id, date>>].content)
          IN  \A m \in 0..(Len(lines) - 1) :
                  Hit(lines, toLowerCase(lastOp.query), m)
                  => \E g \in 1..Len(lastOp.ret) :
                        /\ lastOp.ret[g].date = date
                        /\ \E b \in 1..Len(lastOp.ret[g].blocks) :
                              /\ lastOp.ret[g].blocks[b].start <= m
                              /\ m < lastOp.ret[g].blocks[b].end

\* ---------------------------------------------------------------- C38
\* the dates that getSessions(id) returns, and the dates of the day files
SessionDates(d, id) ==
    {getSessions(d, id, FALSE)[i].date : i \in 1..Len(getSessions(d, id, FALSE))}
FileDates(d, id) == {key[2] : key \in {k \in DOMAIN d.days : k[1] = id}}
Consistent(d, id) == SessionDates(d, id) = FileDates(d, id)
\* the flush that is taken could not update the index of project id
IndexFailed(id) ==
    /\ IsHistoryFlush'
    /\ \E i \in 1..Len(writeBuffers) :
          writeBuffers[i].id = id /\ lastOp'.outs[i] = "index"
HistoryIds == {Uuid(1), Uuid(2)}

\* C38 as stated: in every state the dates of getSessions are the dates of the
\* day files, whatever happened to the index updates.
C38_Original == \A id \in HistoryIds : Consistent(fs, id)

\* C38: appendExchange and flush keep the dates of getSessions equal to the
\* dates of the day files as long as the index update of the flush does not
\* fail, also when there was no index file; a flush whose index update fails
\* writes the day file and leaves the index as it was.
C38_Step ==
    \A id \in HistoryIds :
        /\ (Consistent(fs, id) /\ ~IndexFailed(id)) => Consistent(fs', id)
        /\ IndexFailed(id) =>
              /\ DateOf(now) \in FileDates(fs', id)
              /\ Exists(fs'.index, id) = Exists(fs.index, id)
              /\ Exists(fs.index, id) => fs'.index[id] = fs.index[id]
C38_IndexMatchesFiles == [][C38_Step]_vars

\* a flush without an index file wrote a day file and the index that lists it
C38_Witness ==
    /\ IsHistoryFlush
    /\ \E i \in 1..Len(lastOp.outs) : lastOp.outs[i] = "none"
    /\ \E id \in HistoryIds : FileDates(fs, id) # {} /\ Consistent(fs, id)

\* ---------------------------------------------------------------- C39
\* the entries of a list of panes that carry the id
EntriesOf(ps, id) == {i \in 1..Len(ps) : ps[i].id = id}

\* C39: whatever the store holds, load() returns four panes with pairwise
\* distinct ids, and updatePaneCwds writes the directory of a live pane to
\* exactly one entry of the stored panes.
C39_FourDistinctPanes ==
    /\ lastOp.op = "workspace:load" =>
          /\ Len(lastOp.panes) = StoredPanes
          /\ \A id \in StoredIds : Cardinality(EntriesOf(lastOp.panes, id)) <= 1
    /\ lastOp.op = "updatePaneCwds" =>
          /\ Len(workspace) = StoredPanes
          /\ Cardinality({i \in EntriesOf(workspace, lastOp.pane) :
                              workspace[i].workingDirectory = Dir_p}) = 1
====
